---- MODULE Spec2Model ----
(***************************************************************************)
(* Model of the Cisco -> Cradlepoint zone-firewall converter               *)
(* (cisco_to_cradlepoint_converter_v3.py, class                            *)
(* CiscoToCradlepointConverter).                                           *)
(*                                                                         *)
(* Representation.                                                         *)
(*  - A Python string is a sequence of chunks (TLA+ strings).  The chunk   *)
(*    alphabet never splits a substring the code tests for ("SVC-",        *)
(*    "ACL_", ".", "-", a numeral, ...), so startswith / replace / split   *)
(*    / f-string concatenation are computed structurally on sequences.     *)
(*  - A configuration line is modelled after line.strip(): the sequence of *)
(*    its whitespace separated tokens (tokens separated by one blank).     *)
(*  - A Python dict is a sequence of [k, v] records in insertion order;    *)
(*    assigning an existing key keeps its position.                        *)
(*  - uuid4() values are drawn in order from the pool UUIDS; "" models     *)
(*    both None and '' for an id.                                          *)
(***************************************************************************)
EXTENDS Integers, Sequences, FiniteSets, TLC

VARIABLES
    config_file,              \* the lines of the file named by self.config_file
    config_lines,             \* self.config_lines
    add_internet_zone,        \* self.add_internet_zone
    zones,                    \* self.zones
    interfaces,               \* self.interfaces
    object_groups,            \* self.object_groups
    acls,                     \* self.acls
    class_maps,               \* self.class_maps
    policy_maps,              \* self.policy_maps
    zone_pairs,               \* self.zone_pairs
    identities,               \* self.identities  ([ip, port])
    object_group_to_identity, \* self.object_group_to_identity
    filter_policies,          \* self.filter_policies
    zone_forwardings,         \* self.zone_forwardings
    document,                 \* the value returned by generate_cradlepoint_config
    errors,                   \* the list returned by validate_against_dtd
    nextId,                   \* number of uuid4() values drawn so far
    pc,                       \* position inside convert()
    ret,                      \* where parse_config returns to
    rules_in,                 \* argument of a direct _consolidate_rules call
    rules_out                 \* its result

parsed == <<zones, interfaces, object_groups, acls, class_maps, policy_maps, zone_pairs>>
built  == <<identities, object_group_to_identity, filter_policies, zone_forwardings>>
output == <<document, errors>>
direct == <<rules_in, rules_out>>
vars   == <<config_file, config_lines, add_internet_zone, parsed, built, output, nextId, pc, ret, direct>>

-----------------------------------------------------------------------------
(* Sequences *)

Range(s) == {s[i] : i \in DOMAIN s}

IsPrefix(p, s) == Len(p) <= Len(s) /\ SubSeq(s, 1, Len(p)) = p

Drop(s, n) == SubSeq(s, n + 1, Len(s))

RECURSIVE Flatten(_)
Flatten(ss) == IF ss = <<>> THEN <<>> ELSE Head(ss) \o Flatten(Tail(ss))

\* ' '.join(tokens): the text of a run of tokens
RECURSIVE JoinTokens(_)
JoinTokens(ts) ==
    IF ts = <<>> THEN <<>>
    ELSE IF Len(ts) = 1 THEN ts[1]
    ELSE ts[1] \o <<" ">> \o JoinTokens(Tail(ts))

\* a keyword or literal made of one chunk
K(c) == <<c>>

\* line.startswith('k1 k2 ... kn ') on a stripped line: the first n tokens
\* are the keywords and something follows the trailing blank
StartsWithWords(line, ws) ==
    /\ Len(line) > Len(ws)
    /\ \A i \in 1..Len(ws) : line[i] = K(ws[i])

\* line.startswith('word') without a trailing blank: the first token begins
\* with the word
StartsWithText(line, w) == Len(line) >= 1 /\ IsPrefix(K(w), line[1])

\* 'word ' in line: some token ends with the word and is followed by a token
ContainsWordBlank(line, w) ==
    \E i \in 1..(Len(line) - 1) :
        Len(line[i]) >= 1 /\ line[i][Len(line[i])] = w

\* str.replace(old, new) for a one-chunk old
ReplaceChunk(s, old, new) ==
    Flatten([i \in 1..Len(s) |-> IF s[i] = old THEN new ELSE <<s[i]>>])

-----------------------------------------------------------------------------
(* Dicts in insertion order *)

Has(d, key) == \E i \in DOMAIN d : d[i].k = key
Get(d, key) == d[CHOOSE i \in DOMAIN d : d[i].k = key].v
Put(d, key, val) ==
    IF Has(d, key)
    THEN [i \in DOMAIN d |-> IF d[i].k = key THEN [k |-> key, v |-> val] ELSE d[i]]
    ELSE Append(d, [k |-> key, v |-> val])
Values(d) == [i \in DOMAIN d |-> d[i].v]

-----------------------------------------------------------------------------
(* uuid4 *)

UUIDS == <<"u01", "u02", "u03", "u04", "u05", "u06", "u07", "u08", "u09", "u10",
           "u11", "u12", "u13", "u14", "u15", "u16", "u17", "u18", "u19", "u20",
           "u21", "u22", "u23", "u24", "u25", "u26", "u27", "u28", "u29", "u30",
           "u31", "u32", "u33", "u34", "u35", "u36", "u37", "u38", "u39", "u40">>

\* the n-th value drawn after `base` earlier draws
GenerateId(base, n) == UUIDS[base + n]

\* the order sorted() puts two id strings in
IdRank(id) == CHOOSE i \in DOMAIN UUIDS : UUIDS[i] = id

-----------------------------------------------------------------------------
(* Numerals: int(token), token.isdigit() and str(n) over the numerals the   *)
(* modelled inputs use                                                      *)

Numerals ==
    { <<"0", 0>>, <<"1", 1>>, <<"2", 2>>, <<"3", 3>>, <<"4", 4>>, <<"5", 5>>,
      <<"6", 6>>, <<"7", 7>>, <<"8", 8>>, <<"9", 9>>, <<"10", 10>>,
      <<"16", 16>>, <<"17", 17>>, <<"20", 20>>, <<"22", 22>>, <<"24", 24>>, <<"32", 32>>, <<"53", 53>>, <<"80", 80>>, <<"255", 255>>, <<"300", 300>>,
      <<"443", 443>>, <<"8000", 8000>>, <<"8010", 8010>> }

IsDigit(tok) == Len(tok) = 1 /\ \E p \in Numerals : p[1] = tok[1]
IntOf(tok) == (CHOOSE p \in Numerals : p[1] = tok[1])[2]
StrOf(n) == K((CHOOSE p \in Numerals : p[2] = n)[1])

\* self.port_map (the entries the modelled inputs can name)
port_map ==
    { <<"http", 80>>, <<"https", 443>>, <<"ssh", 22>>, <<"dns", 53>>,
      <<"domain", 53>>, <<"www", 80>> }

InPortMap(tok) == Len(tok) = 1 /\ \E p \in port_map : p[1] = tok[1]
PortMapOf(tok) == (CHOOSE p \in port_map : p[1] = tok[1])[2]

\* ipaddress.ip_address(ip) succeeds: dotted quad of numerals 0..255
_is_valid_ip_address(ip) ==
    /\ Len(ip) = 7
    /\ \A i \in {2, 4, 6} : ip[i] = "."
    /\ \A i \in {1, 3, 5, 7} : IsDigit(<<ip[i]>>) /\ IntOf(<<ip[i]>>) <= 255

-----------------------------------------------------------------------------
(* parse_zones *)

RECURSIVE ParseZonesFrom(_, _, _, _)
ParseZonesFrom(lines, i, zs, n) ==
    IF i > Len(lines) THEN [zones |-> zs, n |-> n]
    ELSE IF StartsWithWords(lines[i], <<"zone", "security">>)
         THEN LET zone_name == JoinTokens(Drop(lines[i], 2))
                  zone_id == GenerateId(n, 1)
              IN ParseZonesFrom(lines, i + 1,
                     Append(zs, [k |-> zone_id,
                                 v |-> [id |-> zone_id, name |-> zone_name,
                                        devices |-> <<>>, trigger |-> FALSE]]),
                     n + 1)
         ELSE ParseZonesFrom(lines, i + 1, zs, n)

-----------------------------------------------------------------------------
(* parse_interfaces.  cur is the key of current_interface, <<>> for None. *)

\* the first zone id whose zone has this name, "" if none
ZoneIdByName(zs, name) ==
    IF \E i \in DOMAIN zs : zs[i].v.name = name
    THEN zs[CHOOSE i \in DOMAIN zs :
              /\ zs[i].v.name = name
              /\ \A j \in 1..(i - 1) : zs[j].v.name # name].k
    ELSE ""

RECURSIVE ParseInterfacesFrom(_, _, _, _, _, _)
ParseInterfacesFrom(lines, i, cur, ifs, zs, n) ==
    IF i > Len(lines) THEN [interfaces |-> ifs, zones |-> zs, n |-> n]
    ELSE LET line == lines[i] IN
      IF StartsWithWords(line, <<"interface">>)
      THEN LET interface_name == JoinTokens(Drop(line, 1))
           IN ParseInterfacesFrom(lines, i + 1, interface_name,
                  Put(ifs, interface_name,
                      [name |-> interface_name, zone |-> <<>>,
                       ip_address |-> <<>>, subnet_mask |-> <<>>]),
                  zs, n)
      ELSE IF cur # <<>> /\ StartsWithWords(line, <<"zone-member", "security">>)
      THEN LET zone_name == JoinTokens(Drop(line, 2))
               ifs2 == Put(ifs, cur, [Get(ifs, cur) EXCEPT !.zone = zone_name])
               zone_id == ZoneIdByName(zs, zone_name)
               device_id == GenerateId(n, 1)
           IN IF zone_id # ""
              THEN ParseInterfacesFrom(lines, i + 1, cur, ifs2,
                       Put(zs, zone_id,
                           [Get(zs, zone_id) EXCEPT !.devices =
                               Append(@, [id |-> device_id, name |-> cur,
                                          type |-> "interface"])]),
                       n + 1)
              ELSE ParseInterfacesFrom(lines, i + 1, cur, ifs2, zs, n)
      ELSE IF cur # <<>> /\ StartsWithWords(line, <<"ip", "address">>)
      THEN \* parts = line.split(); len(parts) >= 3 holds after the prefix
           LET withIp == [Get(ifs, cur) EXCEPT !.ip_address = line[3]]
               withMask == IF Len(line) >= 4
                           THEN [withIp EXCEPT !.subnet_mask = line[4]]
                           ELSE withIp
           IN ParseInterfacesFrom(lines, i + 1, cur, Put(ifs, cur, withMask), zs, n)
      ELSE IF /\ line # <<>>
              /\ ~StartsWithText(line, "!")
              /\ ~StartsWithText(line, "interface")
      THEN ParseInterfacesFrom(lines, i + 1, <<>>, ifs, zs, n)
      ELSE ParseInterfacesFrom(lines, i + 1, cur, ifs, zs, n)
-----------------------------------------------------------------------------
(* parse_object_groups.  cur is the name of current_object_group, <<>> for  *)
(* None.  A ValueError of int() ends the pass with raised = TRUE.           *)

SectionWords ==
    {"interface", "ip", "router", "zone", "class-map", "policy-map", "crypto",
     "line", "access-list", "logging", "ntp", "snmp-server", "tacacs", "banner",
     "mgcp", "gatekeeper", "control-plane", "scheduler"}

\* the elif that resets current_object_group (source line 264)
ObjectGroupEnds(line) ==
    \/ StartsWithText(line, "!")
    \/ \E w \in SectionWords : StartsWithWords(line, <<w>>)
    \/ StartsWithText(line, "end")

\* the elif that takes the line as an entry (source line 268), given that
\* the two branches before it did not: its last disjunct is all that is left
ObjectGroupEntry(line) ==
    line # <<>> /\ ~StartsWithText(line, "object-group")

\* line.split('word ')[1].strip(): the text after the first token that ends
\* with the word
TextAfterWord(line, w) ==
    LET i == CHOOSE j \in 1..(Len(line) - 1) :
                 /\ Len(line[j]) >= 1 /\ line[j][Len(line[j])] = w
                 /\ \A h \in 1..(j - 1) :
                        ~(Len(line[h]) >= 1 /\ line[h][Len(line[h])] = w)
    IN JoinTokens(Drop(line, i))

\* entries of a network object group (source lines 270-314)
NetworkEntry(line) ==
    IF ContainsWordBlank(line, "host")
    THEN <<[type |-> "host", value |-> TextAfterWord(line, "host")]>>
    ELSE IF ContainsWordBlank(line, "network")
    THEN IF Len(line) >= 3
         THEN <<[type |-> "network", network |-> line[2], mask |-> line[3]]>>
         ELSE <<>>
    ELSE IF ContainsWordBlank(line, "range")
    THEN IF Len(line) >= 3
         THEN <<[type |-> "range", start |-> line[2], end |-> line[3]]>>
         ELSE <<>>
    ELSE IF ~StartsWithWords(line, <<"description">>)
    THEN IF Len(line) >= 2
         THEN <<[type |-> "network", network |-> line[1], mask |-> line[2]]>>
         ELSE IF Len(line) = 1
         THEN <<[type |-> "host", value |-> line[1]]>>
         ELSE <<>>
    ELSE <<>>

IsProtoLine(line) ==
    \/ StartsWithWords(line, <<"tcp">>)
    \/ StartsWithWords(line, <<"udp">>)
    \/ StartsWithWords(line, <<"tcp-udp">>)

\* entries of a service object group (source lines 316-362):
\* [raised, objs]
ServiceEntry(line) ==
    IF IsProtoLine(line)
    THEN IF Len(line) >= 3 /\ line[2] = K("eq")
         THEN LET port == line[3] IN
              IF IsDigit(port)
              THEN [raised |-> FALSE,
                    objs |-> <<[type |-> "port", isint |-> TRUE,
                                num |-> IntOf(port), name |-> <<>>]>>]
              ELSE IF InPortMap(port)
              THEN [raised |-> FALSE,
                    objs |-> <<[type |-> "port", isint |-> TRUE,
                                num |-> PortMapOf(port), name |-> <<>>]>>]
              ELSE \* int(port) fails: the name is kept as a string
                   [raised |-> FALSE,
                    objs |-> <<[type |-> "port", isint |-> FALSE,
                                num |-> 0, name |-> port]>>]
         ELSE [raised |-> FALSE, objs |-> <<>>]
    ELSE IF ContainsWordBlank(line, "range")
    THEN IF Len(line) >= 4
         THEN IF IsDigit(line[3]) /\ IsDigit(line[4])
              THEN [raised |-> FALSE,
                    objs |-> <<[type |-> "range", start_port |-> IntOf(line[3]),
                                end_port |-> IntOf(line[4])]>>]
              ELSE [raised |-> TRUE, objs |-> <<>>]
         ELSE [raised |-> FALSE, objs |-> <<>>]
    ELSE IF ContainsWordBlank(line, "object-group")
    THEN [raised |-> FALSE,
          objs |-> <<[type |-> "object_group",
                      reference |-> TextAfterWord(line, "object-group")]>>]
    ELSE [raised |-> FALSE, objs |-> <<>>]

RECURSIVE ParseObjectGroupsFrom(_, _, _, _)
ParseObjectGroupsFrom(lines, i, cur, ogs) ==
    IF i > Len(lines) THEN [object_groups |-> ogs, raised |-> FALSE]
    ELSE LET line == lines[i] IN
      IF StartsWithWords(line, <<"object-group">>)
      THEN IF Len(line) >= 3
           THEN LET group_type == line[2]
                    group_name == line[3]
                IN ParseObjectGroupsFrom(lines, i + 1, group_name,
                       Put(ogs, group_name,
                           [name |-> group_name, type |-> group_type,
                            objects |-> <<>>]))
           ELSE ParseObjectGroupsFrom(lines, i + 1, cur, ogs)
      ELSE IF cur # <<>> /\ ObjectGroupEnds(line)
      THEN ParseObjectGroupsFrom(lines, i + 1, <<>>, ogs)
      ELSE IF cur # <<>> /\ ObjectGroupEntry(line)
      THEN LET g == Get(ogs, cur) IN
           IF g.type = K("network")
           THEN ParseObjectGroupsFrom(lines, i + 1, cur,
                    Put(ogs, cur, [g EXCEPT !.objects = @ \o NetworkEntry(line)]))
           ELSE IF g.type = K("service")
           THEN LET e == ServiceEntry(line) IN
                IF e.raised
                THEN [object_groups |-> ogs, raised |-> TRUE]
                ELSE ParseObjectGroupsFrom(lines, i + 1, cur,
                         Put(ogs, cur, [g EXCEPT !.objects = @ \o e.objs]))
           ELSE ParseObjectGroupsFrom(lines, i + 1, cur, ogs)
      ELSE \* the last elif can only reset a current group that is None already
           ParseObjectGroupsFrom(lines, i + 1, cur, ogs)
-----------------------------------------------------------------------------
(* _parse_acl_rule.  A rule is a record of all the keys the parser can set; *)
(* <<>> stands for a key that is absent from the dict.                      *)

\* str.lower() on the protocol tokens of the modelled inputs
Lower(tok) ==
    [i \in DOMAIN tok |->
        CASE tok[i] = "TCP" -> "tcp"
          [] tok[i] = "UDP" -> "udp"
          [] tok[i] = "ICMP" -> "icmp"
          [] tok[i] = "IP" -> "ip"
          [] OTHER -> tok[i]]

valid_protocols == {K("tcp"), K("udp"), K("icmp"), K("ip")}

\* protocol_map.get(protocol.lower(), 6) of _parse_acl_rule
AclProtocolId(protocol) ==
    CASE Lower(protocol) = K("tcp") -> 6
      [] Lower(protocol) = K("udp") -> 17
      [] Lower(protocol) = K("icmp") -> 1
      [] Lower(protocol) = K("ip") -> 0
      [] OTHER -> 6

IsServiceName(name) == IsPrefix(K("SVC-"), name) \/ IsPrefix(K("SVCG-"), name)

OG == K("object-group")

NoRuleFields ==
    [service_object_group |-> <<>>, source_object_group |-> <<>>,
     destination_object_group |-> <<>>, source_ip |-> <<>>,
     destination_ip |-> <<>>, source_port |-> <<>>, destination_port |-> <<>>]

\* the port specification after the addresses (source lines 486-490, 504-508)
PortSpec(rp) ==
    IF Len(rp) >= 6 /\ rp[5] \in {K("eq"), K("range"), K("lt"), K("gt")}
    THEN IF rp[5] = K("eq") THEN rp[6]
         ELSE IF rp[5] = K("range") /\ Len(rp) >= 7
              THEN rp[6] \o K("-") \o rp[7]
              ELSE <<>>
    ELSE <<>>

\* source / destination of the two- and one-token shapes: a token holds no
\* blank, so the 'host ' and 'object-group ' tests of the code never match
EndpointIp(tok) == IF tok = K("any") THEN K("any") ELSE <<>>
EndpointGroup(tok) == IF tok = K("any") THEN <<>> ELSE tok

\* the fields set from remaining_parts (rp is 1-based here)
AclShape(rp) ==
    IF Len(rp) >= 6 /\ rp[1] = OG /\ rp[3] = OG /\ rp[5] = OG
    THEN [NoRuleFields EXCEPT !.service_object_group = rp[2],
                              !.source_object_group = rp[4],
                              !.destination_object_group = rp[6]]
    ELSE IF Len(rp) >= 4 /\ rp[1] = OG /\ rp[3] = OG
    THEN IF IsServiceName(rp[2])
         THEN LET destination == IF Len(rp) > 4 THEN rp[5] ELSE K("any") IN
              [NoRuleFields EXCEPT !.service_object_group = rp[2],
                                   !.source_object_group = rp[4],
                                   !.destination_ip = EndpointIp(destination),
                                   !.destination_object_group = EndpointGroup(destination)]
         ELSE [NoRuleFields EXCEPT !.source_object_group = rp[2],
                                   !.destination_object_group = rp[4],
                                   !.destination_port = PortSpec(rp)]
    ELSE IF Len(rp) >= 5 /\ rp[1] = OG /\ rp[3] = K("host")
    THEN [NoRuleFields EXCEPT !.source_object_group = rp[2],
                              !.destination_ip = rp[4],
                              !.destination_port = PortSpec(rp)]
    ELSE IF Len(rp) >= 5 /\ rp[1] = OG /\ rp[3] = OG /\ rp[5] = K("eq")
    THEN [NoRuleFields EXCEPT !.source_object_group = rp[2],
                              !.destination_object_group = rp[4],
                              !.destination_port = rp[6]]
    ELSE IF Len(rp) = 2
    THEN [NoRuleFields EXCEPT !.source_ip = EndpointIp(rp[1]),
                              !.source_object_group = EndpointGroup(rp[1]),
                              !.destination_ip = EndpointIp(rp[2]),
                              !.destination_object_group = EndpointGroup(rp[2])]
    ELSE IF Len(rp) = 1
    THEN [NoRuleFields EXCEPT !.destination_ip = K("any"),
                              !.source_ip = EndpointIp(rp[1]),
                              !.source_object_group = EndpointGroup(rp[1])]
    ELSE NoRuleFields

\* the rule returned for a permit/deny line, as a sequence of 0 or 1 rules
\* (<<>> is None)
_parse_acl_rule(line) ==
    IF StartsWithWords(line, <<"permit">>) \/ StartsWithWords(line, <<"deny">>)
    THEN LET explicit == Lower(line[2]) \in valid_protocols
             protocol == IF explicit THEN line[2] ELSE K("ip")
             remaining_parts == IF explicit THEN Drop(line, 2) ELSE Drop(line, 1)
             shape == AclShape(remaining_parts)
         IN <<[action |-> IF line[1] = K("permit") THEN "allow" ELSE "deny",
               protocol |-> protocol,
               protocol_id |-> AclProtocolId(protocol),
               service_object_group |-> shape.service_object_group,
               source_object_group |-> shape.source_object_group,
               destination_object_group |-> shape.destination_object_group,
               source_ip |-> shape.source_ip,
               destination_ip |-> shape.destination_ip,
               source_port |-> shape.source_port,
               destination_port |-> shape.destination_port]>>
    ELSE <<>>

-----------------------------------------------------------------------------
(* parse_acls *)

RECURSIVE ParseAclsFrom(_, _, _, _)
ParseAclsFrom(lines, i, cur, as) ==
    IF i > Len(lines) THEN as
    ELSE LET line == lines[i] IN
      IF StartsWithWords(line, <<"ip", "access-list", "extended">>)
      THEN LET acl_name == JoinTokens(Drop(line, 3))
           IN ParseAclsFrom(lines, i + 1, acl_name,
                  Put(as, acl_name, [name |-> acl_name, rules |-> <<>>]))
      ELSE IF cur # <<>> /\ (StartsWithWords(line, <<"permit">>)
                             \/ StartsWithWords(line, <<"deny">>))
      THEN ParseAclsFrom(lines, i + 1, cur,
               Put(as, cur, [Get(as, cur) EXCEPT !.rules = @ \o _parse_acl_rule(line)]))
      ELSE IF /\ line # <<>>
              /\ ~StartsWithText(line, "!")
              /\ ~(Len(line) >= 2 /\ line[1] = K("ip")
                   /\ IsPrefix(K("access-list"), line[2]))
      THEN ParseAclsFrom(lines, i + 1, <<>>, as)
      ELSE ParseAclsFrom(lines, i + 1, cur, as)

-----------------------------------------------------------------------------
(* parse_class_maps *)

RECURSIVE ParseClassMapsFrom(_, _, _, _)
ParseClassMapsFrom(lines, i, cur, cms) ==
    IF i > Len(lines) THEN cms
    ELSE LET line == lines[i] IN
      IF StartsWithWords(line, <<"class-map", "type", "inspect", "match-any">>)
      THEN LET class_map_name == JoinTokens(Drop(line, 4))
           IN ParseClassMapsFrom(lines, i + 1, class_map_name,
                  Put(cms, class_map_name,
                      [name |-> class_map_name, acl_references |-> <<>>,
                       object_group_references |-> <<>>]))
      ELSE IF cur # <<>> /\ StartsWithWords(line, <<"match", "access-group", "name">>)
      THEN ParseClassMapsFrom(lines, i + 1, cur,
               Put(cms, cur, [Get(cms, cur) EXCEPT !.acl_references = Append(@, line[4])]))
      ELSE IF cur # <<>> /\ StartsWithWords(line, <<"match", "object-group">>)
      THEN ParseClassMapsFrom(lines, i + 1, cur,
               Put(cms, cur,
                   [Get(cms, cur) EXCEPT !.object_group_references = Append(@, line[3])]))
      ELSE IF /\ line # <<>>
              /\ ~StartsWithText(line, "!")
              /\ ~StartsWithText(line, "class-map")
              /\ ~StartsWithText(line, "policy-map")
      THEN ParseClassMapsFrom(lines, i + 1, <<>>, cms)
      ELSE ParseClassMapsFrom(lines, i + 1, cur, cms)

-----------------------------------------------------------------------------
(* parse_policy_maps.  The action branch tests line.startswith('  ') on a   *)
(* line that was stripped, so it is never taken.                            *)

StrippedStartsWithBlanks(line) == FALSE

PolicyAction(line) ==
    IF ContainsWordBlank(line, "inspect")
    THEN <<[type |-> "inspect"]>>
    ELSE IF \E i \in DOMAIN line : "drop" \in Range(line[i])
    THEN <<[type |-> "drop"]>>
    ELSE IF \E i \in DOMAIN line : "pass" \in Range(line[i])
    THEN <<[type |-> "pass"]>>
    ELSE <<>>

RECURSIVE ParsePolicyMapsFrom(_, _, _, _)
ParsePolicyMapsFrom(lines, i, cur, pms) ==
    IF i > Len(lines) THEN pms
    ELSE LET line == lines[i] IN
      IF StartsWithWords(line, <<"policy-map", "type", "inspect">>)
      THEN LET policy_map_name == JoinTokens(Drop(line, 3))
           IN ParsePolicyMapsFrom(lines, i + 1, policy_map_name,
                  Put(pms, policy_map_name,
                      [name |-> policy_map_name, class_actions |-> <<>>]))
      ELSE IF cur # <<>> /\ StartsWithWords(line, <<"class", "type", "inspect">>)
      THEN LET class_name == JoinTokens(Drop(line, 3))
           IN ParsePolicyMapsFrom(lines, i + 1, cur,
                  Put(pms, cur,
                      [Get(pms, cur) EXCEPT !.class_actions =
                          Append(@, [class_name |-> class_name, actions |-> <<>>])]))
      ELSE IF cur # <<>> /\ StrippedStartsWithBlanks(line)
      THEN LET pm == Get(pms, cur)
               last == Len(pm.class_actions)
           IN ParsePolicyMapsFrom(lines, i + 1, cur,
                  Put(pms, cur,
                      [pm EXCEPT !.class_actions[last].actions = @ \o PolicyAction(line)]))
      ELSE IF /\ line # <<>>
              /\ ~StartsWithText(line, "!")
              /\ ~StartsWithText(line, "class-map")
              /\ ~StartsWithText(line, "policy-map")
      THEN ParsePolicyMapsFrom(lines, i + 1, <<>>, pms)
      ELSE ParsePolicyMapsFrom(lines, i + 1, cur, pms)

-----------------------------------------------------------------------------
(* parse_zone_pairs *)

\* the token after the last occurrence of the keyword that has a successor,
\* <<>> if there is none
AfterKeyword(parts, kw) ==
    LET hits == {i \in 1..(Len(parts) - 1) : parts[i] = K(kw)}
    IN IF hits = {} THEN <<>>
       ELSE parts[(CHOOSE i \in hits : \A j \in hits : j <= i) + 1]

\* the for loop of source lines 661-665: a token that is `source` is never
\* looked at as `destination`, which the if/elif on the token value gives
RECURSIVE ParseZonePairsFrom(_, _, _)
ParseZonePairsFrom(lines, i, zps) ==
    IF i > Len(lines) THEN zps
    ELSE LET line == lines[i] IN
      IF StartsWithWords(line, <<"zone-pair", "security">>)
      THEN IF Len(line) >= 6
           THEN LET pair_name == line[3]
                    source_zone == AfterKeyword(line, "source")
                    destination_zone == AfterKeyword(line, "destination")
                IN IF source_zone # <<>> /\ destination_zone # <<>>
                   THEN ParseZonePairsFrom(lines, i + 1,
                            Put(zps, pair_name,
                                [name |-> pair_name, source_zone |-> source_zone,
                                 destination_zone |-> destination_zone,
                                 policy_map |-> <<>>]))
                   ELSE ParseZonePairsFrom(lines, i + 1, zps)
           ELSE ParseZonePairsFrom(lines, i + 1, zps)
      ELSE IF StartsWithWords(line, <<"service-policy", "type", "inspect">>)
      THEN LET policy_map_name == line[4] IN
           IF zps # <<>>
           THEN ParseZonePairsFrom(lines, i + 1,
                    [zps EXCEPT ![Len(zps)].v.policy_map = policy_map_name])
           ELSE ParseZonePairsFrom(lines, i + 1, zps)
      ELSE ParseZonePairsFrom(lines, i + 1, zps)
-----------------------------------------------------------------------------
(* _get_protocol_identities_for_service_group and the identical scan of     *)
(* create_identities: the tcp / udp port sets read from the raw lines       *)

\* line.startswith(f'object-group service {name}'): a prefix of the text, so
\* the third token only has to begin with the name
ServiceHeaderFor(line, name) ==
    /\ Len(line) >= 3
    /\ line[1] = K("object-group")
    /\ line[2] = K("service")
    /\ IsPrefix(name, line[3])

ScanBreaks(line) ==
    \/ StartsWithText(line, "!")
    \/ StartsWithWords(line, <<"object-group">>)
    \/ StartsWithWords(line, <<"class-map">>)
    \/ StartsWithWords(line, <<"policy-map">>)
    \/ StartsWithWords(line, <<"zone-pair">>)
    \/ StartsWithWords(line, <<"ip", "access-list">>)
    \/ StartsWithWords(line, <<"interface">>)
    \/ StartsWithWords(line, <<"router">>)
    \/ StartsWithWords(line, <<"zone", "security">>)

\* the ports one `<proto> eq <port>` line adds: int(parts[2]), else port_map
EqPorts(line) ==
    IF Len(line) >= 3 /\ line[2] = K("eq")
    THEN IF IsDigit(line[3]) THEN {IntOf(line[3])}
         ELSE IF InPortMap(line[3]) THEN {PortMapOf(line[3])}
         ELSE {}
    ELSE {}

RECURSIVE ScanServicePorts(_, _, _, _, _, _)
ScanServicePorts(lines, i, name, in_service_group, tcp_ports, udp_ports) ==
    IF i > Len(lines) THEN [tcp |-> tcp_ports, udp |-> udp_ports]
    ELSE LET line == lines[i] IN
      IF ServiceHeaderFor(line, name)
      THEN ScanServicePorts(lines, i + 1, name, TRUE, tcp_ports, udp_ports)
      ELSE IF in_service_group
      THEN IF ScanBreaks(line)
           THEN [tcp |-> tcp_ports, udp |-> udp_ports]
           ELSE IF line = <<>> \/ StartsWithWords(line, <<"description">>)
           THEN ScanServicePorts(lines, i + 1, name, TRUE, tcp_ports, udp_ports)
           ELSE IF StartsWithWords(line, <<"tcp">>)
           THEN ScanServicePorts(lines, i + 1, name, TRUE,
                                 tcp_ports \cup EqPorts(line), udp_ports)
           ELSE IF StartsWithWords(line, <<"udp">>)
           THEN ScanServicePorts(lines, i + 1, name, TRUE,
                                 tcp_ports, udp_ports \cup EqPorts(line))
           ELSE IF StartsWithWords(line, <<"tcp-udp">>)
           THEN ScanServicePorts(lines, i + 1, name, TRUE,
                                 tcp_ports \cup EqPorts(line),
                                 udp_ports \cup EqPorts(line))
           ELSE ScanServicePorts(lines, i + 1, name, TRUE, tcp_ports, udp_ports)
      ELSE ScanServicePorts(lines, i + 1, name, FALSE, tcp_ports, udp_ports)

_get_protocol_identities_for_service_group(lines, ogs, service_group_name) ==
    IF ~Has(ogs, service_group_name) THEN <<6>>
    ELSE IF Get(ogs, service_group_name).type # K("service") THEN <<6>>
    ELSE LET found == ScanServicePorts(lines, 1, service_group_name, FALSE, {}, {})
         IN IF found.tcp # {} /\ found.udp # {} THEN <<6, 17>>
            ELSE IF found.tcp # {} THEN <<6>>
            ELSE IF found.udp # {} THEN <<17>>
            ELSE <<6>>

-----------------------------------------------------------------------------
(* create_identities *)

RECURSIVE PopCount(_)
PopCount(n) == IF n = 0 THEN 0 ELSE (n % 2) + PopCount(n \div 2)

RECURSIVE SumSeq(_)
SumSeq(ns) == IF ns = <<>> THEN 0 ELSE Head(ns) + SumSeq(Tail(ns))

\* the '.'-separated fields of a string
Fields(str) == SelectSeq(str, LAMBDA c : c # ".")

_cidr_from_mask(mask) ==
    IF IsPrefix(<<"255", ".">>, mask)
    THEN LET octets == Fields(mask) IN
         IF \A i \in DOMAIN octets : IsDigit(<<octets[i]>>)
         THEN K("/") \o StrOf(SumSeq([i \in DOMAIN octets |->
                                         PopCount(IntOf(<<octets[i]>>))]))
         ELSE K("/32")
    ELSE IF IsPrefix(K("/"), mask) THEN mask
    ELSE K("/") \o mask

\* members[str(i)] = ... over enumerate(group['objects']); i is 0-based
RECURSIVE IpMembers(_, _, _)
IpMembers(objects, i, members) ==
    IF i >= Len(objects) THEN members
    ELSE LET obj == objects[i + 1] IN
      IF obj.type = "host"
      THEN IpMembers(objects, i + 1,
               IF _is_valid_ip_address(obj.value)
               THEN Put(members, i, [address |-> obj.value])
               ELSE members)
      ELSE IF obj.type = "network"
      THEN IpMembers(objects, i + 1,
               IF _is_valid_ip_address(obj.network)
               THEN Put(members, i,
                        [address |-> obj.network \o _cidr_from_mask(obj.mask)])
               ELSE members)
      ELSE IF obj.type = "range"
      THEN IpMembers(objects, i + 1,
               IF _is_valid_ip_address(obj.start) /\ _is_valid_ip_address(obj.end)
               THEN LET m1 == Put(members, i, [address |-> obj.start])
                    IN IF i + 1 < Len(objects)
                       THEN Put(m1, i + 1, [address |-> obj.end])
                       ELSE m1
               ELSE members)
      ELSE IpMembers(objects, i + 1, members)

\* first loop of create_identities: st = [ip, port, map, n]
RECURSIVE NetworkIdentities(_, _, _)
NetworkIdentities(ogs, g, st) ==
    IF g > Len(ogs) THEN st
    ELSE LET group == ogs[g].v
             group_name == ogs[g].k
         IN IF group.type = K("network") /\ group.objects # <<>>
            THEN LET identity_id == GenerateId(st.n, 1)
                     members == IpMembers(group.objects, 0, <<>>)
                 IN IF members # <<>>
                    THEN NetworkIdentities(ogs, g + 1,
                             [st EXCEPT !.n = @ + 1,
                                        !.ip = Append(@, [id |-> identity_id,
                                                          name |-> group_name,
                                                          members |-> Values(members)]),
                                        !.map = Put(@, group_name, identity_id)])
                    ELSE NetworkIdentities(ogs, g + 1, [st EXCEPT !.n = @ + 1])
            ELSE NetworkIdentities(ogs, g + 1, st)

\* sorted(ports) as {start, end} members
RECURSIVE SortedPortMembers(_)
SortedPortMembers(ports) ==
    IF ports = {} THEN <<>>
    ELSE LET p == CHOOSE x \in ports : \A y \in ports : x <= y
         IN <<[start |-> p, end |-> p]>> \o SortedPortMembers(ports \ {p})

\* members of a single-protocol service group (source lines 825-867)
RECURSIVE PortMembers(_, _, _, _)
PortMembers(objects, i, members, map) ==
    IF i >= Len(objects) THEN members
    ELSE LET obj == objects[i + 1] IN
      IF obj.type = "port"
      THEN IF obj.isint
           THEN PortMembers(objects, i + 1,
                    Put(members, i, [start |-> obj.num, end |-> obj.num]), map)
           ELSE IF InPortMap(obj.name)
           THEN PortMembers(objects, i + 1,
                    Put(members, i, [start |-> PortMapOf(obj.name),
                                     end |-> PortMapOf(obj.name)]), map)
           ELSE IF IsDigit(obj.name)
           THEN PortMembers(objects, i + 1,
                    Put(members, i, [start |-> IntOf(obj.name),
                                     end |-> IntOf(obj.name)]), map)
           ELSE PortMembers(objects, i + 1, members, map)
      ELSE IF obj.type = "range"
      THEN PortMembers(objects, i + 1,
               Put(members, i, [start |-> obj.start_port, end |-> obj.end_port]), map)
      ELSE IF obj.type = "object_group"
      THEN PortMembers(objects, i + 1,
               IF Has(map, obj.reference)
               THEN Put(members, i, [start |-> 0, end |-> 0])
               ELSE members, map)
      ELSE PortMembers(objects, i + 1, members, map)

\* a mixed-protocol group: one identity per protocol (source lines 787-819)
MixedIdentities(group_name, found, st) ==
    LET tcp_id == GenerateId(st.n, 1)
        withTcp ==
            IF found.tcp # {}
            THEN [st EXCEPT
                    !.n = @ + 1,
                    !.port = Append(@, [id |-> tcp_id,
                                        name |-> group_name \o <<"-", "TCP">>,
                                        members |-> SortedPortMembers(found.tcp)]),
                    !.map = Put(Put(@, group_name \o <<"-", "TCP">>, tcp_id),
                                group_name \o <<"-", "tcp">>, tcp_id)]
            ELSE st
        udp_id == GenerateId(withTcp.n, 1)
        withUdp ==
            IF found.udp # {}
            THEN [withTcp EXCEPT
                    !.n = @ + 1,
                    !.port = Append(@, [id |-> udp_id,
                                        name |-> group_name \o <<"-", "UDP">>,
                                        members |-> SortedPortMembers(found.udp)]),
                    !.map = Put(Put(@, group_name \o <<"-", "UDP">>, udp_id),
                                group_name \o <<"-", "udp">>, udp_id)]
            ELSE withTcp
    IN IF found.tcp # {} THEN [withUdp EXCEPT !.map = Put(@, group_name, tcp_id)]
       ELSE IF found.udp # {} THEN [withUdp EXCEPT !.map = Put(@, group_name, udp_id)]
       ELSE withUdp

\* second loop of create_identities
RECURSIVE ServiceIdentities(_, _, _, _)
ServiceIdentities(lines, ogs, g, st) ==
    IF g > Len(ogs) THEN st
    ELSE LET group == ogs[g].v
             group_name == ogs[g].k
         IN IF group.type = K("service") /\ group.objects # <<>>
            THEN LET protocols ==
                         _get_protocol_identities_for_service_group(lines, ogs, group_name)
                 IN IF Len(protocols) > 1
                    THEN ServiceIdentities(lines, ogs, g + 1,
                             MixedIdentities(group_name,
                                 ScanServicePorts(lines, 1, group_name, FALSE, {}, {}),
                                 st))
                    ELSE LET identity_id == GenerateId(st.n, 1)
                             members == PortMembers(group.objects, 0, <<>>, st.map)
                         IN IF members # <<>>
                            THEN ServiceIdentities(lines, ogs, g + 1,
                                     [st EXCEPT
                                        !.n = @ + 1,
                                        !.port = Append(@, [id |-> identity_id,
                                                            name |-> group_name,
                                                            members |-> Values(members)]),
                                        !.map = Put(@, group_name, identity_id)])
                            ELSE ServiceIdentities(lines, ogs, g + 1,
                                                   [st EXCEPT !.n = @ + 1])
            ELSE ServiceIdentities(lines, ogs, g + 1, st)

CreateIdentities(lines, ogs, st) ==
    ServiceIdentities(lines, ogs, 1, NetworkIdentities(ogs, 1, st))
-----------------------------------------------------------------------------
(* Rule translator.  st = [ip, port, map, n]: self.identities['ip'],        *)
(* self.identities['port'], self.object_group_to_identity and the number of *)
(* ids drawn.  A Filter Rule keeps its identity references as sequences of  *)
(* ids ({'0': {'identity': a}, ...}; [] is the empty sequence); has_dst     *)
(* tells whether the dict has a 'dst' key.                                  *)

\* _create_rule_name with an acl_name (both callers pass one)
_create_rule_name(as, acl_name, rule_index) ==
    LET clean_acl_name ==
            ReplaceChunk(ReplaceChunk(ReplaceChunk(acl_name, "ACL_", <<>>),
                                      "ACL-", <<>>), "_", <<"-">>)
    IN IF Has(as, acl_name)
       THEN IF Len(Get(as, acl_name).rules) > 1 /\ rule_index # -1
            THEN clean_acl_name \o K("-") \o StrOf(rule_index + 1)
            ELSE clean_acl_name
       ELSE clean_acl_name

\* the id of the first identity of the list with this name, "" if none
IdentityByName(list, name) ==
    IF \E i \in DOMAIN list : list[i].name = name
    THEN list[CHOOSE i \in DOMAIN list :
                /\ list[i].name = name
                /\ \A j \in 1..(i - 1) : list[j].name # name].id
    ELSE ""

IpIdentityName(ip) == K("IP-") \o ReplaceChunk(ip, ".", <<"-">>)

\* [id, st]; id = "" is None
\* variant: no lookup of an existing identity
AlwaysCreateIpIdentity(ip, st) ==
    IF ~_is_valid_ip_address(ip) THEN [id |-> "", st |-> st]
    ELSE [id |-> GenerateId(st.n, 1),
          st |-> [st EXCEPT !.n = @ + 1,
                            !.ip = Append(@, [id |-> GenerateId(st.n, 1),
                                              name |-> IpIdentityName(ip),
                                              members |-> <<[address |-> ip]>>])]]

_get_or_create_ip_identity(ip, st) ==
    IF ~_is_valid_ip_address(ip) THEN [id |-> "", st |-> st]
    ELSE IF IdentityByName(st.ip, IpIdentityName(ip)) # ""
    THEN [id |-> IdentityByName(st.ip, IpIdentityName(ip)), st |-> st]
    ELSE LET identity_id == GenerateId(st.n, 1)
         IN [id |-> identity_id,
             st |-> [st EXCEPT !.n = @ + 1,
                               !.ip = Append(@, [id |-> identity_id,
                                                 name |-> IpIdentityName(ip),
                                                 members |-> <<[address |-> ip]>>])]]

PortIdentityName(port) == K("PORT-") \o port

_get_or_create_port_identity(ogs, port, st) ==
    IF IdentityByName(st.port, PortIdentityName(port)) # ""
    THEN [id |-> IdentityByName(st.port, PortIdentityName(port)), st |-> st]
    ELSE IF /\ Has(ogs, port)
            /\ Get(ogs, port).type = K("service")
            /\ Has(st.map, port)
    THEN [id |-> Get(st.map, port), st |-> st]
    ELSE IF IsDigit(port)
    THEN LET identity_id == GenerateId(st.n, 1)
         IN [id |-> identity_id,
             st |-> [st EXCEPT !.n = @ + 1,
                               !.port = Append(@, [id |-> identity_id,
                                                   name |-> PortIdentityName(port),
                                                   members |-> <<[start |-> IntOf(port),
                                                                  end |-> IntOf(port)]>>])]]
    ELSE [id |-> "", st |-> st]

\* _get_protocol_identity_for_rule: the loops over service_group.get('members')
\* run over a key the group dict does not have, so they find no udp member
_get_protocol_identity_for_rule(ogs, acl_rule) ==
    LET protocol == Lower(acl_rule.protocol)
        IsServiceGroup(name) ==
            /\ name # <<>>
            /\ IsServiceName(name)
            /\ Has(ogs, name)
            /\ Get(ogs, name).type = K("service")
    IN IF IsServiceGroup(acl_rule.source_object_group) THEN 6
       ELSE IF IsServiceGroup(acl_rule.destination_object_group) THEN 6
       ELSE IF protocol = K("tcp") THEN 6
       ELSE IF protocol = K("udp") THEN 17
       ELSE IF protocol = K("icmp") THEN 1
       ELSE 6

IdList(id) == IF id = "" THEN <<>> ELSE <<id>>

\* source identity of a rule (source lines 1075-1086): [id, st]
SourceIdentity(acl_rule, st) ==
    IF acl_rule.source_object_group # <<>>
    THEN [id |-> IF Has(st.map, acl_rule.source_object_group)
                 THEN Get(st.map, acl_rule.source_object_group) ELSE "",
          st |-> st]
    ELSE IF acl_rule.source_ip # <<>> /\ acl_rule.source_ip # K("any")
    THEN _get_or_create_ip_identity(acl_rule.source_ip, st)
    ELSE [id |-> "", st |-> st]

\* destination identity (source lines 1088-1102)
DestinationIdentity(acl_rule, st) ==
    IF acl_rule.destination_object_group # <<>>
    THEN [id |-> IF /\ Has(st.map, acl_rule.destination_object_group)
                    /\ ~IsServiceName(acl_rule.destination_object_group)
                 THEN Get(st.map, acl_rule.destination_object_group)
                 ELSE "",
          st |-> st]
    ELSE IF acl_rule.destination_ip # <<>> /\ acl_rule.destination_ip # K("any")
    THEN _get_or_create_ip_identity(acl_rule.destination_ip, st)
    ELSE [id |-> "", st |-> st]

\* source port identity (source lines 1104-1109)
SourcePortIdentity(ogs, acl_rule, st) ==
    IF acl_rule.source_port # <<>>
    THEN _get_or_create_port_identity(ogs, acl_rule.source_port, st)
    ELSE [id |-> "", st |-> st]

\* destination port identity of a rule without service group
\* (source lines 1111-1119)
DestinationPortIdentity(ogs, acl_rule, st) ==
    IF acl_rule.destination_port # <<>> /\ acl_rule.service_object_group = <<>>
    THEN _get_or_create_port_identity(ogs, acl_rule.destination_port, st)
    ELSE [id |-> "", st |-> st]

\* the Filter Rules built from the identities found (source lines 1121-1221);
\* ids = [src, dst, sport, dport, st], st the state after the last lookup
BuildRules(ogs, as, acl_rule, rule_index, acl_name, ids, protocol_identities) ==
    LET service_group == acl_rule.service_object_group
        base_rule_name == _create_rule_name(as, acl_name, -1)
        Rule(name, priority, protocols, dst_ports) ==
            [action |-> acl_rule.action, name |-> name, priority |-> priority,
             protocols |-> protocols, has_dst |-> TRUE,
             dst |-> [ip |-> IdList(ids.dst), port |-> dst_ports],
             src |-> [ip |-> IdList(ids.src), port |-> IdList(ids.sport)]]
    IN IF service_group # <<>>
       THEN IF Len(protocol_identities) > 1
            THEN [st |-> ids.st,
                  rules |->
                    [i \in 1..Len(protocol_identities) |->
                       LET protocol_id == protocol_identities[i]
                           protocol_name == IF protocol_id = 6 THEN "TCP" ELSE "UDP"
                           key == service_group \o <<"-", protocol_name>>
                       IN Rule(base_rule_name \o <<"-", protocol_name>>,
                               (rule_index + (i - 1)) * 10,
                               <<protocol_id>>,
                               (IF Has(ids.st.map, key) THEN <<Get(ids.st.map, key)>> ELSE <<>>)
                                   \o IdList(ids.dport))]]
            ELSE [st |-> ids.st,
                  rules |->
                    <<Rule(base_rule_name, rule_index * 10,
                           <<protocol_identities[1]>>,
                           (IF Has(ids.st.map, service_group)
                            THEN <<Get(ids.st.map, service_group)>> ELSE <<>>)
                               \o IdList(ids.dport))>>]
       ELSE [st |-> ids.st,
             rules |->
               <<Rule(base_rule_name, rule_index * 10,
                      IF Lower(acl_rule.protocol) \in {K("ip"), K("ipv4"), K("ipv6"), K("any")}
                      THEN <<>>
                      ELSE <<_get_protocol_identity_for_rule(ogs, acl_rule)>>,
                      IdList(ids.dport))>>]

\* one lookup recorded: the id found and the state it leaves
Lookup(found, field, r) == [found EXCEPT ![field] = r.id, !.st = r.st]

WithSource(acl_rule, st) ==
    Lookup([src |-> "", dst |-> "", sport |-> "", dport |-> "", st |-> st],
           "src", SourceIdentity(acl_rule, st))

WithDestination(acl_rule, found) ==
    Lookup(found, "dst", DestinationIdentity(acl_rule, found.st))

WithSourcePort(ogs, acl_rule, found) ==
    Lookup(found, "sport", SourcePortIdentity(ogs, acl_rule, found.st))

WithDestinationPort(ogs, acl_rule, found) ==
    Lookup(found, "dport", DestinationPortIdentity(ogs, acl_rule, found.st))

\* [rules, st]: the list of Filter Rules for one ACL rule
_convert_acl_rule_to_cradlepoint(lines, ogs, as, acl_rule, rule_index, acl_name, st) ==
    BuildRules(ogs, as, acl_rule, rule_index, acl_name,
        WithDestinationPort(ogs, acl_rule,
            WithSourcePort(ogs, acl_rule,
                WithDestination(acl_rule, WithSource(acl_rule, st)))),
        _get_protocol_identities_for_service_group(
            lines, ogs, acl_rule.service_object_group))

-----------------------------------------------------------------------------
(* Rule consolidator.  A key string is a sequence of atoms and "_" chunks,  *)
(* so two keys are equal exactly when the strings the code builds are.      *)

\* sorted(ids): uuid strings in their string order
RECURSIVE SortIds(_)
SortIds(ids) ==
    IF ids = {} THEN <<>>
    ELSE LET m == CHOOSE x \in ids : \A y \in ids : IdRank(x) <= IdRank(y)
         IN <<m>> \o SortIds(ids \ {m})

\* sorted(list) of id strings, duplicates kept
RECURSIVE SortedList(_)
SortedList(list) ==
    IF list = <<>> THEN <<>>
    ELSE LET m == CHOOSE i \in DOMAIN list :
                      \A j \in DOMAIN list : IdRank(list[i]) <= IdRank(list[j])
         IN <<list[m]>> \o SortedList([k \in 1..(Len(list) - 1) |->
                                          IF k < m THEN list[k] ELSE list[k + 1]])

\* '_'.join(atoms)
RECURSIVE JoinUnderscore(_)
JoinUnderscore(atoms) ==
    IF atoms = <<>> THEN <<>>
    ELSE IF Len(atoms) = 1 THEN atoms
    ELSE <<atoms[1], "_">> \o JoinUnderscore(Tail(atoms))

\* _get_rule_protocol_key: a rule holds at most one protocol, so sorted() of
\* the id strings is the list itself
_get_rule_protocol_key(rule) ==
    IF rule.protocols = <<>> THEN <<"any">>
    ELSE JoinUnderscore([i \in DOMAIN rule.protocols |-> StrOf(rule.protocols[i])[1]])

_get_rule_port_key(rule) ==
    <<"dst", "_">> \o JoinUnderscore(SortedList(rule.dst.port))
        \o <<"_", "src", "_">> \o JoinUnderscore(SortedList(rule.src.port))

_get_rule_ip_key(rule, direction) ==
    LET ips == IF direction = "src" THEN rule.src.ip ELSE rule.dst.ip
    IN IF ips # <<>> THEN JoinUnderscore(SortedList(ips)) ELSE <<"any">>

GroupKey(rule) ==
    <<rule.action, "_">> \o _get_rule_protocol_key(rule)
        \o <<"_">> \o _get_rule_port_key(rule)
        \o <<"_">> \o _get_rule_ip_key(rule, "src")
        \o <<"_">> \o _get_rule_ip_key(rule, "dst")

\* remove duplicates while preserving order
RECURSIVE Unique(_, _)
Unique(list, seen) ==
    IF list = <<>> THEN <<>>
    ELSE IF Head(list) \in seen THEN Unique(Tail(list), seen)
    ELSE <<Head(list)>> \o Unique(Tail(list), seen \cup {Head(list)})

\* [raised, rule]: base_rule['dst'][...] = ... is a KeyError when the first
\* rule has no 'dst'
_merge_rules(rules) ==
    LET base_rule == rules[1]
        all_src_ips == Flatten([i \in DOMAIN rules |-> rules[i].src.ip])
        all_dst_ips == Flatten([i \in DOMAIN rules |-> rules[i].dst.ip])
        all_src_ports == Flatten([i \in DOMAIN rules |-> rules[i].src.port])
        all_dst_ports == Flatten([i \in DOMAIN rules |-> rules[i].dst.port])
    IN IF ~base_rule.has_dst
       THEN [raised |-> TRUE, rule |-> base_rule]
       ELSE [raised |-> FALSE,
             rule |-> [base_rule EXCEPT !.src.ip = Unique(all_src_ips, {}),
                                        !.dst.ip = Unique(all_dst_ips, {}),
                                        !.src.port = Unique(all_src_ports, {}),
                                        !.dst.port = Unique(all_dst_ports, {})]]

_handle_duplicate_rule_names(rules) ==
    LET name_counts(name) == {i \in DOMAIN rules : rules[i].name = name}
    IN [i \in DOMAIN rules |->
          LET same_name_rules == name_counts(rules[i].name)
          IN IF Cardinality(same_name_rules) > 1
             THEN LET rule_position == Cardinality({j \in same_name_rules : j <= i})
                  IN [rules[i] EXCEPT !.name = @ \o K("-") \o StrOf(rule_position)]
             ELSE rules[i]]

\* rule_groups: the group keys in first-seen order
RECURSIVE GroupKeys(_, _)
GroupKeys(rules, seen) ==
    IF rules = <<>> THEN <<>>
    ELSE IF GroupKey(Head(rules)) \in seen THEN GroupKeys(Tail(rules), seen)
    ELSE <<GroupKey(Head(rules))>>
            \o GroupKeys(Tail(rules), seen \cup {GroupKey(Head(rules))})

\* [raised, rules]
_consolidate_rules(rules) ==
    LET keys == GroupKeys(rules, {})
        Group(key) == SelectSeq(rules, LAMBDA r : GroupKey(r) = key)
        merged == [g \in DOMAIN keys |->
                     IF Len(Group(keys[g])) = 1
                     THEN [raised |-> FALSE, rule |-> Group(keys[g])[1]]
                     ELSE _merge_rules(Group(keys[g]))]
    IN IF \E g \in DOMAIN merged : merged[g].raised
       THEN [raised |-> TRUE, rules |-> <<>>]
       ELSE [raised |-> FALSE,
             rules |-> _handle_duplicate_rule_names(
                           [g \in DOMAIN merged |-> merged[g].rule])]
-----------------------------------------------------------------------------
(* create_filter_policies *)

\* sub in text, on chunk boundaries
Contains(text, sub) ==
    \E i \in 1..(Len(text) - Len(sub) + 1) : SubSeq(text, i, i + Len(sub) - 1) = sub

_is_acl_applied_somewhere(lines, acl_name) ==
    \/ \E i \in DOMAIN lines :
          Contains(JoinTokens(lines[i]), <<"access-group", " ">> \o acl_name)
    \/ \E i \in DOMAIN lines :
          /\ Contains(JoinTokens(lines[i]), acl_name)
          /\ \/ Contains(JoinTokens(lines[i]), K("service-policy"))
             \/ Contains(JoinTokens(lines[i]), K("zone-pair"))

AclsUsedInClassMaps(cms) ==
    UNION {Range(cms[i].v.acl_references) : i \in DOMAIN cms}

\* rules.append(...) for the rules one call of the translator returned
AppendRules(acc, got) == [rules |-> acc.rules \o got.rules, st |-> got.st]

\* variant: every ACL rule is translated with rule index 0
RECURSIVE ConvertAclRulesAtZero(_, _, _, _, _, _, _)
ConvertAclRulesAtZero(lines, ogs, as, acl_rules, j, acl_name, acc) ==
    IF j > Len(acl_rules) THEN acc
    ELSE ConvertAclRulesAtZero(lines, ogs, as, acl_rules, j + 1, acl_name,
             AppendRules(acc,
                 _convert_acl_rule_to_cradlepoint(
                     lines, ogs, as, acl_rules[j], 0, acl_name, acc.st)))

\* the rules of one ACL appended to `rules` (source lines 913-918, 965-972):
\* acc = [rules, st]
RECURSIVE ConvertAclRules(_, _, _, _, _, _, _)
ConvertAclRules(lines, ogs, as, acl_rules, j, acl_name, acc) ==
    IF j > Len(acl_rules) THEN acc
    ELSE ConvertAclRules(lines, ogs, as, acl_rules, j + 1, acl_name,
             AppendRules(acc,
                 _convert_acl_rule_to_cradlepoint(
                     lines, ogs, as, acl_rules[j], Len(acc.rules), acl_name, acc.st)))

\* self.filter_policies[policy_id] = {...} with the consolidated rules; the
\* assignment is not reached when _consolidate_rules raised
AddPolicy(ps, policy_id, name, consolidated) ==
    IF consolidated.raised THEN [ps EXCEPT !.raised = TRUE]
    ELSE [ps EXCEPT !.policies =
             Put(@, policy_id, [id |-> policy_id, name |-> name,
                                default_action |-> "deny",
                                rules |-> consolidated.rules])]

\* the policy of one orphan ACL, only if it has rules (source lines 920-928)
AclPolicy(ps, policy_id, acl_name, acc) ==
    IF acc.rules # <<>>
    THEN AddPolicy([ps EXCEPT !.st = acc.st], policy_id, acl_name,
                   _consolidate_rules(acc.rules))
    ELSE [ps EXCEPT !.st = acc.st]

\* first pass: ACLs used by no class map that are applied somewhere.
\* ps = [policies, st, raised]
RECURSIVE OrphanAclPolicies(_, _, _, _, _, _)
OrphanAclPolicies(lines, ogs, as, cms, a, ps) ==
    IF a > Len(as) \/ ps.raised THEN ps
    ELSE IF /\ as[a].k \notin AclsUsedInClassMaps(cms)
            /\ _is_acl_applied_somewhere(lines, as[a].k)
    THEN OrphanAclPolicies(lines, ogs, as, cms, a + 1,
             AclPolicy(ps, GenerateId(ps.st.n, 1), as[a].k,
                 ConvertAclRules(lines, ogs, as, as[a].v.rules, 1, as[a].k,
                     [rules |-> <<>>, st |-> [ps.st EXCEPT !.n = @ + 1]])))
    ELSE OrphanAclPolicies(lines, ogs, as, cms, a + 1, ps)

\* the ACLs a class map references, in order (source lines 961-972)
RECURSIVE ClassAclRules(_, _, _, _, _, _)
ClassAclRules(lines, ogs, as, refs, r, acc) ==
    IF r > Len(refs) THEN acc
    ELSE IF Has(as, refs[r])
    THEN ClassAclRules(lines, ogs, as, refs, r + 1,
             ConvertAclRules(lines, ogs, as, Get(as, refs[r]).rules, 1, refs[r], acc))
    ELSE ClassAclRules(lines, ogs, as, refs, r + 1, acc)

\* one OBJ-<group> rule per object group reference that has an identity
\* (source lines 975-990)
RECURSIVE ObjectGroupRules(_, _, _)
ObjectGroupRules(refs, r, acc) ==
    IF r > Len(refs) THEN acc
    ELSE IF Has(acc.st.map, refs[r])
    THEN ObjectGroupRules(refs, r + 1,
             [acc EXCEPT !.rules =
                 Append(@, [action |-> "allow", name |-> K("OBJ-") \o refs[r],
                            priority |-> Len(acc.rules) * 10,
                            protocols |-> <<6>>, has_dst |-> TRUE,
                            dst |-> [ip |-> <<Get(acc.st.map, refs[r])>>, port |-> <<>>],
                            src |-> [ip |-> <<>>, port |-> <<>>]])])
    ELSE ObjectGroupRules(refs, r + 1, acc)

\* a drop action adds DENY-<class>; inspect and pass add nothing
\* (source lines 993-1012)
RECURSIVE ActionRules(_, _, _, _)
ActionRules(actions, k, class_name, acc) ==
    IF k > Len(actions) THEN acc
    ELSE IF actions[k].type = "drop"
    THEN ActionRules(actions, k + 1, class_name,
             [acc EXCEPT !.rules =
                 Append(@, [action |-> "deny", name |-> K("DENY-") \o class_name,
                            priority |-> Len(acc.rules) * 10,
                            protocols |-> <<6>>, has_dst |-> FALSE,
                            dst |-> [ip |-> <<>>, port |-> <<>>],
                            src |-> [ip |-> <<>>, port |-> <<>>]])])
    ELSE ActionRules(actions, k + 1, class_name, acc)

RECURSIVE ClassActionRules(_, _, _, _, _, _, _)
ClassActionRules(lines, ogs, as, cms, class_actions, c, acc) ==
    IF c > Len(class_actions) THEN acc
    ELSE ClassActionRules(lines, ogs, as, cms, class_actions, c + 1,
             ActionRules(class_actions[c].actions, 1, class_actions[c].class_name,
                 IF Has(cms, class_actions[c].class_name)
                 THEN ObjectGroupRules(
                          Get(cms, class_actions[c].class_name).object_group_references, 1,
                          ClassAclRules(lines, ogs, as,
                              Get(cms, class_actions[c].class_name).acl_references, 1, acc))
                 ELSE acc))

\* the policy of one policy map, stored even without rules
\* (source lines 1014-1021)
PolicyMapPolicy(ps, policy_id, policy_name, acc) ==
    AddPolicy([ps EXCEPT !.st = acc.st], policy_id, policy_name,
              _consolidate_rules(acc.rules))

\* second pass: one policy per policy map.  The destination zone the code
\* computes is only read by the rule naming used without an ACL name.
RECURSIVE PolicyMapPolicies(_, _, _, _, _, _, _)
PolicyMapPolicies(lines, ogs, as, cms, pms, p, ps) ==
    IF p > Len(pms) \/ ps.raised THEN ps
    ELSE PolicyMapPolicies(lines, ogs, as, cms, pms, p + 1,
             PolicyMapPolicy(ps, GenerateId(ps.st.n, 1), pms[p].k,
                 ClassActionRules(lines, ogs, as, cms, pms[p].v.class_actions, 1,
                     [rules |-> <<>>, st |-> [ps.st EXCEPT !.n = @ + 1]])))

DefaultAllowAll == <<"Default", " ", "Allow", " ", "All">>
DefaultDenyAll == <<"Default", " ", "Deny", " ", "All">>
AllowAll == <<"ALLOW", " ", "ALL">>

DefaultRule(action, name, priority) ==
    [action |-> action, name |-> name, priority |-> priority,
     protocols |-> <<6>>, has_dst |-> FALSE,
     dst |-> [ip |-> <<>>, port |-> <<>>],
     src |-> [ip |-> <<>>, port |-> <<>>]]

\* variant: only the allow policy is synthesized
DefaultPoliciesAllowOnly(ps) ==
    IF ps.policies # <<>> \/ ps.raised THEN ps
    ELSE LET allow_policy_id == GenerateId(ps.st.n, 1)
         IN [ps EXCEPT
               !.st.n = @ + 1,
               !.policies =
                   <<[k |-> allow_policy_id,
                      v |-> [id |-> allow_policy_id, name |-> DefaultAllowAll,
                             default_action |-> "deny",
                             rules |-> <<DefaultRule("allow", <<"Allow", " ", "All">>, 10)>>]]>>]

\* the two default policies when no policy exists (source lines 1023-1061)
DefaultPolicies(ps) ==
    IF ps.policies # <<>> \/ ps.raised THEN ps
    ELSE LET allow_policy_id == GenerateId(ps.st.n, 1)
             deny_policy_id == GenerateId(ps.st.n, 2)
         IN [ps EXCEPT
               !.st.n = @ + 2,
               !.policies =
                   <<[k |-> allow_policy_id,
                      v |-> [id |-> allow_policy_id, name |-> DefaultAllowAll,
                             default_action |-> "deny",
                             rules |-> <<DefaultRule("allow", <<"Allow", " ", "All">>, 10)>>]],
                     [k |-> deny_policy_id,
                      v |-> [id |-> deny_policy_id, name |-> DefaultDenyAll,
                             default_action |-> "deny",
                             rules |-> <<DefaultRule("deny", <<"Deny", " ", "All">>, 20)>>]]>>]

CreateFilterPolicies(lines, ogs, as, cms, pms, ps) ==
    DefaultPolicies(
        PolicyMapPolicies(lines, ogs, as, cms, pms, 1,
            OrphanAclPolicies(lines, ogs, as, cms, 1, ps)))
-----------------------------------------------------------------------------
(* create_zone_forwardings, create_internet_zone *)

\* the id the zone loop leaves in src_zone_id / dst_zone_id: the last zone
\* whose name matches, the destination being tested only when the source
\* test failed
RECURSIVE ZoneLoop(_, _, _, _)
ZoneLoop(zs, z, pair, found) ==
    IF z > Len(zs) THEN found
    ELSE IF zs[z].v.name = pair.source_zone
    THEN ZoneLoop(zs, z + 1, pair, [found EXCEPT !.src_zone_id = zs[z].k])
    ELSE IF zs[z].v.name = pair.destination_zone
    THEN ZoneLoop(zs, z + 1, pair, [found EXCEPT !.dst_zone_id = zs[z].k])
    ELSE ZoneLoop(zs, z + 1, pair, found)

\* the id of the first policy with the name, "" (None) when there is none
FirstPolicyNamed(fps, name) ==
    IF \E i \in DOMAIN fps : fps[i].v.name = name
    THEN fps[CHOOSE i \in DOMAIN fps :
                /\ fps[i].v.name = name
                /\ \A j \in 1..(i - 1) : fps[j].v.name # name].k
    ELSE ""

\* variant: no fall back to 'Default Deny All'
PairPolicyIdByNameOnly(fps, pair) ==
    IF pair.policy_map # <<>> THEN FirstPolicyNamed(fps, pair.policy_map) ELSE ""

PairPolicyId(fps, pair) ==
    LET byName == IF pair.policy_map # <<>>
                  THEN FirstPolicyNamed(fps, pair.policy_map) ELSE ""
    IN IF byName # "" THEN byName ELSE FirstPolicyNamed(fps, DefaultDenyAll)

\* fw = [forwardings, n]
RECURSIVE CreateZoneForwardings(_, _, _, _, _)
CreateZoneForwardings(zs, fps, zps, p, fw) ==
    IF p > Len(zps) THEN fw
    ELSE LET forwarding_id == GenerateId(fw.n, 1)
             found == ZoneLoop(zs, 1, zps[p].v, [src_zone_id |-> "", dst_zone_id |-> ""])
         IN CreateZoneForwardings(zs, fps, zps, p + 1,
                [forwardings |->
                     Put(fw.forwardings, forwarding_id,
                         [id |-> forwarding_id,
                          src_zone_id |-> found.src_zone_id,
                          dst_zone_id |-> found.dst_zone_id,
                          filter_policy_id |-> PairPolicyId(fps, zps[p].v)]),
                 n |-> fw.n + 1])

internet_zone_name == K("EXT-Internet")

\* variant: the internet zone is not skipped
RECURSIVE InternetForwardingsAll(_, _, _, _, _)
InternetForwardingsAll(zs, z, internet_zone_id, default_allow_policy_id, fw) ==
    IF z > Len(zs) THEN fw
    ELSE InternetForwardingsAll(zs, z + 1, internet_zone_id, default_allow_policy_id,
             [forwardings |->
                  Put(fw.forwardings, GenerateId(fw.n, 1),
                      [id |-> GenerateId(fw.n, 1),
                       src_zone_id |-> zs[z].k,
                       dst_zone_id |-> internet_zone_id,
                       filter_policy_id |-> default_allow_policy_id]),
              n |-> fw.n + 1])

\* one forwarding per zone other than the internet zone
RECURSIVE InternetForwardings(_, _, _, _, _)
InternetForwardings(zs, z, internet_zone_id, default_allow_policy_id, fw) ==
    IF z > Len(zs) THEN fw
    ELSE IF zs[z].k # internet_zone_id
    THEN LET forwarding_id == GenerateId(fw.n, 1)
         IN InternetForwardings(zs, z + 1, internet_zone_id, default_allow_policy_id,
                [forwardings |->
                     Put(fw.forwardings, forwarding_id,
                         [id |-> forwarding_id,
                          src_zone_id |-> zs[z].k,
                          dst_zone_id |-> internet_zone_id,
                          filter_policy_id |-> default_allow_policy_id]),
                 n |-> fw.n + 1])
    ELSE InternetForwardings(zs, z + 1, internet_zone_id, default_allow_policy_id, fw)

\* the whole of create_internet_zone: [zones, filter_policies, forwardings, n]
CreateInternetZone(zs, fps, fws, n) ==
    LET internet_zone_id == GenerateId(n, 1)
        zs2 == Put(zs, internet_zone_id,
                   [id |-> internet_zone_id, name |-> internet_zone_name,
                    devices |-> <<[id |-> "", name |-> K("wan"), type |-> "trigger"]>>,
                    trigger |-> TRUE])
        existing == FirstPolicyNamed(fps, DefaultAllowAll)
        default_allow_policy_id ==
            IF existing # "" THEN existing ELSE GenerateId(n, 2)
        fps2 == IF existing # "" THEN fps
                ELSE Put(fps, default_allow_policy_id,
                         [id |-> default_allow_policy_id, name |-> AllowAll,
                          default_action |-> "allow", rules |-> <<>>])
        n2 == IF existing # "" THEN n + 1 ELSE n + 2
        fw == InternetForwardings(zs2, 1, internet_zone_id, default_allow_policy_id,
                                  [forwardings |-> fws, n |-> n2])
    IN [zones |-> zs2, filter_policies |-> fps2,
        forwardings |-> fw.forwardings, n |-> fw.n]

-----------------------------------------------------------------------------
(* generate_cradlepoint_config, validate_against_dtd *)

IsAllowAllName(name) == name = AllowAll \/ name = DefaultAllowAll

\* variant: the policies in creation order
UnsortedFilterPolicies(fps) == fps

\* sorted_filter_policies: the first policy named 'ALLOW ALL' or
\* 'Default Allow All', then every policy with neither name
SortedFilterPolicies(fps) ==
    LET allow == SelectSeq(fps, LAMBDA e : IsAllowAllName(e.v.name))
        others == SelectSeq(fps, LAMBDA e : ~IsAllowAllName(e.v.name))
    IN (IF allow # <<>> THEN <<allow[1]>> ELSE <<>>) \o others

NoDocument ==
    [made |-> FALSE, zones |-> <<>>, filter_policies |-> <<>>,
     forwardings |-> <<>>, identities |-> [ip |-> <<>>, port |-> <<>>]]

GenerateDocument(zs, fps, fws, ids) ==
    [made |-> TRUE, zones |-> zs, filter_policies |-> SortedFilterPolicies(fps),
     forwardings |-> fws, identities |-> ids]

RECURSIVE InvalidReferences(_, _, _)
InvalidReferences(fws, f, fps) ==
    IF f > Len(fws) THEN <<>>
    ELSE (IF fws[f].v.filter_policy_id # "" /\ ~Has(fps, fws[f].v.filter_policy_id)
          THEN <<<<"Forwarding ", fws[f].k, " references invalid filter_policy_id: ",
                   fws[f].v.filter_policy_id>>>>
          ELSE <<>>)
         \o InvalidReferences(fws, f + 1, fps)

validate_against_dtd(config) ==
    (IF config.zones = <<>> THEN <<K("No zones found")>> ELSE <<>>)
    \o (IF config.filter_policies = <<>> THEN <<K("No filter policies found")>> ELSE <<>>)
    \o (IF config.forwardings = <<>> THEN <<K("No zone forwardings found")>> ELSE <<>>)
    \o InvalidReferences(config.forwardings, 1, config.filter_policies)
-----------------------------------------------------------------------------
(* The converter as a state machine.  pc is the statement of convert() /    *)
(* parse_config() about to run; ret is where control goes when parse_config *)
(* returns ("generate" when convert called it, "emit" when                  *)
(* generate_cradlepoint_config called it).                                  *)

inputs == <<config_file, add_internet_zone>>

\* the state left by __init__
Constructed ==
    /\ config_lines = <<>>
    /\ zones = <<>>
    /\ interfaces = <<>>
    /\ object_groups = <<>>
    /\ acls = <<>>
    /\ class_maps = <<>>
    /\ policy_maps = <<>>
    /\ zone_pairs = <<>>
    /\ identities = [ip |-> <<>>, port |-> <<>>]
    /\ object_group_to_identity = <<>>
    /\ filter_policies = <<>>
    /\ zone_forwardings = <<>>
    /\ document = NoDocument
    /\ errors = <<>>
    /\ nextId = 0

\* convert() calls parse_config(), which reads the file
convert ==
    /\ pc = "convert"
    /\ config_lines' = config_file
    /\ pc' = "parse_zones"
    /\ ret' = "generate"
    /\ UNCHANGED <<inputs, parsed, built, output, nextId, direct>>

parse_zones ==
    /\ pc = "parse_zones"
    /\ LET r == ParseZonesFrom(config_lines, 1, zones, nextId)
       IN /\ zones' = r.zones
          /\ nextId' = r.n
    /\ pc' = "parse_interfaces"
    /\ UNCHANGED <<inputs, config_lines, interfaces, object_groups, acls, class_maps,
                   policy_maps, zone_pairs, built, output, ret, direct>>

parse_interfaces ==
    /\ pc = "parse_interfaces"
    /\ LET r == ParseInterfacesFrom(config_lines, 1, <<>>, interfaces, zones, nextId)
       IN /\ interfaces' = r.interfaces
          /\ zones' = r.zones
          /\ nextId' = r.n
    /\ pc' = "parse_object_groups"
    /\ UNCHANGED <<inputs, config_lines, object_groups, acls, class_maps,
                   policy_maps, zone_pairs, built, output, ret, direct>>

parse_object_groups ==
    /\ pc = "parse_object_groups"
    /\ LET r == ParseObjectGroupsFrom(config_lines, 1, <<>>, object_groups)
       IN /\ object_groups' = r.object_groups
          /\ pc' = IF r.raised THEN "raised" ELSE "parse_acls"
    /\ UNCHANGED <<inputs, config_lines, zones, interfaces, acls, class_maps,
                   policy_maps, zone_pairs, built, output, nextId, ret, direct>>

parse_acls ==
    /\ pc = "parse_acls"
    /\ acls' = ParseAclsFrom(config_lines, 1, <<>>, acls)
    /\ pc' = "parse_class_maps"
    /\ UNCHANGED <<inputs, config_lines, zones, interfaces, object_groups, class_maps,
                   policy_maps, zone_pairs, built, output, nextId, ret, direct>>

parse_class_maps ==
    /\ pc = "parse_class_maps"
    /\ class_maps' = ParseClassMapsFrom(config_lines, 1, <<>>, class_maps)
    /\ pc' = "parse_policy_maps"
    /\ UNCHANGED <<inputs, config_lines, zones, interfaces, object_groups, acls,
                   policy_maps, zone_pairs, built, output, nextId, ret, direct>>

parse_policy_maps ==
    /\ pc = "parse_policy_maps"
    /\ policy_maps' = ParsePolicyMapsFrom(config_lines, 1, <<>>, policy_maps)
    /\ pc' = "parse_zone_pairs"
    /\ UNCHANGED <<inputs, config_lines, zones, interfaces, object_groups, acls,
                   class_maps, zone_pairs, built, output, nextId, ret, direct>>

parse_zone_pairs ==
    /\ pc = "parse_zone_pairs"
    /\ zone_pairs' = ParseZonePairsFrom(config_lines, 1, zone_pairs)
    /\ pc' = "create_identities"
    /\ UNCHANGED <<inputs, config_lines, zones, interfaces, object_groups, acls,
                   class_maps, policy_maps, built, output, nextId, ret, direct>>

\* self.identities, self.object_group_to_identity and the id counter as the
\* record the identity builder and the rule translator thread
IdentityState ==
    [ip |-> identities.ip, port |-> identities.port,
     map |-> object_group_to_identity, n |-> nextId]

create_identities ==
    /\ pc = "create_identities"
    /\ LET st == CreateIdentities(config_lines, object_groups, IdentityState)
       IN /\ identities' = [ip |-> st.ip, port |-> st.port]
          /\ object_group_to_identity' = st.map
          /\ nextId' = st.n
    /\ pc' = "create_filter_policies"
    /\ UNCHANGED <<inputs, config_lines, parsed, filter_policies, zone_forwardings,
                   output, ret, direct>>

create_filter_policies ==
    /\ pc = "create_filter_policies"
    /\ LET ps == CreateFilterPolicies(config_lines, object_groups, acls, class_maps,
                     policy_maps,
                     [policies |-> filter_policies, st |-> IdentityState,
                      raised |-> FALSE])
       IN /\ filter_policies' = ps.policies
          /\ identities' = [ip |-> ps.st.ip, port |-> ps.st.port]
          /\ object_group_to_identity' = ps.st.map
          /\ nextId' = ps.st.n
          /\ pc' = IF ps.raised THEN "raised" ELSE "create_zone_forwardings"
    /\ UNCHANGED <<inputs, config_lines, parsed, zone_forwardings, output, ret, direct>>

create_zone_forwardings ==
    /\ pc = "create_zone_forwardings"
    /\ LET fw == CreateZoneForwardings(zones, filter_policies, zone_pairs, 1,
                     [forwardings |-> zone_forwardings, n |-> nextId])
       IN /\ zone_forwardings' = fw.forwardings
          /\ nextId' = fw.n
    /\ pc' = IF add_internet_zone THEN "create_internet_zone" ELSE ret
    /\ UNCHANGED <<inputs, config_lines, parsed, identities, object_group_to_identity,
                   filter_policies, output, ret, direct>>

create_internet_zone ==
    /\ pc = "create_internet_zone"
    /\ LET r == CreateInternetZone(zones, filter_policies, zone_forwardings, nextId)
       IN /\ zones' = r.zones
          /\ filter_policies' = r.filter_policies
          /\ zone_forwardings' = r.forwardings
          /\ nextId' = r.n
    /\ pc' = ret
    /\ UNCHANGED <<inputs, config_lines, interfaces, object_groups, acls, class_maps,
                   policy_maps, zone_pairs, identities, object_group_to_identity,
                   output, ret, direct>>

\* generate_cradlepoint_config up to its return, or up to its own call of
\* parse_config when self.config_lines is empty
generate_cradlepoint_config ==
    /\ pc = "generate"
    /\ IF config_lines = <<>>
       THEN /\ config_lines' = config_file
            /\ pc' = "parse_zones"
            /\ ret' = "emit"
            /\ UNCHANGED document
       ELSE /\ document' = GenerateDocument(zones, filter_policies, zone_forwardings,
                                            identities)
            /\ pc' = "validate"
            /\ UNCHANGED <<config_lines, ret>>
    /\ UNCHANGED <<inputs, parsed, built, errors, nextId, direct>>

\* the rest of generate_cradlepoint_config after its parse_config returned
emit_after_parse ==
    /\ pc = "emit"
    /\ document' = GenerateDocument(zones, filter_policies, zone_forwardings, identities)
    /\ pc' = "validate"
    /\ UNCHANGED <<inputs, config_lines, parsed, built, errors, nextId, ret, direct>>

validate ==
    /\ pc = "validate"
    /\ errors' = validate_against_dtd(document)
    /\ pc' = "done"
    /\ UNCHANGED <<inputs, config_lines, parsed, built, document, nextId, ret, direct>>

Next ==
    \/ convert
    \/ parse_zones
    \/ parse_interfaces
    \/ parse_object_groups
    \/ parse_acls
    \/ parse_class_maps
    \/ parse_policy_maps
    \/ parse_zone_pairs
    \/ create_identities
    \/ create_filter_policies
    \/ create_zone_forwardings
    \/ create_internet_zone
    \/ generate_cradlepoint_config
    \/ emit_after_parse
    \/ validate
-----------------------------------------------------------------------------
(* Input files.  A file is a sequence of stripped lines; the families below *)
(* are the files the converter is run on.                                   *)

\* a line of one-chunk words
W(ws) == [i \in DOMAIN ws |-> K(ws[i])]

RECURSIVE PickFrom(_, _, _)
PickFrom(s, S, i) ==
    IF i > Len(s) THEN <<>>
    ELSE (IF i \in S THEN <<s[i]>> ELSE <<>>) \o PickFrom(s, S, i + 1)

\* the subsequences of s with at most max elements
SubSeqsUpTo(s, max) ==
    {PickFrom(s, S, 1) : S \in {T \in SUBSET (1..Len(s)) : Cardinality(T) <= max}}

SeqsUpTo(pool, max) == UNION {[1..n -> pool] : n \in 0..max}

MaxZones == 2
MaxAclRules == 3
MaxJunk == 2
MaxRules == 3

ZoneNames == <<K("LAN"), K("WAN"), K("DMZ"), K("GUEST")>>
SvcA == <<"SVC-", "A">>
SvcAB == <<"SVC-", "A", "B">>
NetSrc == K("SRC")
NetDst == K("DST")
AclX == <<"ACL_", "X">>
Ip1 == <<"10", ".", "0", ".", "0", ".", "1">>
Ip2 == <<"10", ".", "0", ".", "0", ".", "2">>

ZoneLines(k) == [i \in 1..k |-> <<K("zone"), K("security"), ZoneNames[i]>>]

InterfaceBlocks ==
    {<<>>,
     <<W(<<"interface", "Gi0">>),
       W(<<"zone-member", "security", "LAN">>),
       <<K("ip"), K("access-group"), AclX, K("in")>>>>}

NetworkBlock ==
    <<<<OG, K("network"), NetSrc>>, <<K("host"), Ip1>>, W(<<"!">>),
      <<OG, K("network"), NetDst>>, <<K("host"), Ip2>>, W(<<"!">>)>>

ServiceBlocks ==
    {<<>>,
     <<<<OG, K("service"), SvcA>>, W(<<"tcp", "eq", "80">>), W(<<"udp", "eq", "53">>)>>,
     <<<<OG, K("service"), SvcAB>>, W(<<"tcp", "eq", "22">>), W(<<"!">>),
       <<OG, K("service"), SvcA>>, W(<<"tcp", "eq", "80">>), W(<<"udp", "eq", "53">>)>>,
     <<<<OG, K("service"), SvcA>>, W(<<"tcp", "eq", "80">>), W(<<"tcp", "eq", "443">>)>>,
     <<<<OG, K("service"), SvcA>>, W(<<"description", "port", "range", "8000", "8010">>)>>}

AclRuleLines ==
    <<<<K("permit"), OG, SvcA, OG, NetSrc, K("any")>>,
      <<K("permit"), K("tcp"), OG, NetSrc, K("host"), Ip1, K("eq"), K("80")>>,
      <<K("permit"), K("tcp"), OG, NetSrc, K("host"), Ip1, K("eq"), K("443")>>,
      <<K("permit"), K("udp"), OG, NetSrc, K("host"), Ip2, K("eq"), K("80")>>,
      <<K("permit"), K("tcp"), OG, NetSrc, OG, NetDst, K("eq"), K("80")>>,
      <<K("permit"), K("tcp"), OG, NetDst, OG, NetSrc, K("eq"), K("http")>>>>

AclBlock(name, rules) ==
    <<<<K("ip"), K("access-list"), K("extended"), name>>>> \o rules

ClassMapBlock ==
    <<W(<<"class-map", "type", "inspect", "match-any", "CM1">>),
      <<K("match"), K("access-group"), K("name"), AclX>>>>

PolicyMapBlock(name) ==
    <<W(<<"policy-map", "type", "inspect">>) \o name,
      W(<<"class", "type", "inspect", "CM1">>),
      W(<<"inspect">>)>>

\* files exercising service groups and literal addresses / ports
ServiceConfigs ==
    {ZoneLines(1) \o NetworkBlock \o g \o AclBlock(AclX, rules)
        \o ClassMapBlock \o PolicyMapBlock(<<K("PM1")>>) :
        g \in ServiceBlocks, rules \in SubSeqsUpTo(AclRuleLines, MaxAclRules)}

PolicyBlocks ==
    {<<>>,
     ClassMapBlock \o PolicyMapBlock(<<K("PM1")>>),
     ClassMapBlock \o PolicyMapBlock(W(<<"ALLOW", "ALL">>)),
     ClassMapBlock \o PolicyMapBlock(<<K("PM1")>>)
        \o PolicyMapBlock(W(<<"ALLOW", "ALL">>)),
     PolicyMapBlock(W(<<"ALLOW", "ALL">>))
        \o PolicyMapBlock(W(<<"Default", "Allow", "All">>))}

ZonePairLine == W(<<"zone-pair", "security", "ZP1", "source", "LAN", "destination", "WAN">>)

ZonePairBlocks ==
    {<<>>,
     <<ZonePairLine, W(<<"service-policy", "type", "inspect", "PM1">>)>>,
     <<ZonePairLine>>,
     <<ZonePairLine, W(<<"service-policy", "type", "inspect", "PMX">>)>>}

AclBlocks == {<<>>, AclBlock(AclX, <<AclRuleLines[5]>>)}

\* files exercising policies, zone pairs and the internet zone
AssemblerConfigs ==
    {ZoneLines(k) \o i \o a \o p \o z :
        k \in 0..MaxZones, i \in InterfaceBlocks, a \in AclBlocks,
        p \in PolicyBlocks, z \in ZonePairBlocks}

OddLines ==
    {<<OG, K("service"), SvcA>>,
     W(<<"description", "port", "range", "8000", "8010">>),
     W(<<"tcp", "range", "8000", "8010">>),
     W(<<"object-group", "network">>),
     W(<<"permit", "tcp">>),
     W(<<"zone", "security">>),
     W(<<"service-policy", "type", "inspect", "PM1">>),
     W(<<"!">>)}

\* short files of lines in unusual places
OddConfigs == SeqsUpTo(OddLines, MaxJunk)

MaxPairs == 3
MaxMembers == 3

InterfaceApply == <<W(<<"interface", "Gi0">>),
                    <<K("ip"), K("access-group"), AclX, K("in")>>, W(<<"!">>)>>

\* the address / port part of an ACL line, in the shapes of _parse_acl_rule
\* and in shapes it has no branch for
AclBodies ==
    {<<OG, NetSrc, K("host"), Ip1>>,
     <<OG, NetSrc, K("host"), Ip1, K("eq"), K("80")>>,
     <<OG, NetSrc, K("host"), Ip1, K("range"), K("8000"), K("8010")>>,
     <<OG, NetSrc, OG, NetDst>>,
     <<OG, NetSrc, OG, NetDst, K("range"), K("8000"), K("8010")>>,
     <<K("any"), K("any")>>,
     <<K("any")>>,
     <<K("any"), K("any"), K("eq"), K("80")>>,
     <<K("host"), Ip1, K("host"), Ip2>>,
     <<K("host"), Ip1, K("any")>>}

AclProtocols == {<<>>, <<K("tcp")>>, <<K("UDP")>>}

\* files with one applied ACL of one line
AclShapeConfigs ==
    {ZoneLines(1) \o InterfaceApply \o NetworkBlock
        \o AclBlock(AclX, <<<<K(a)>> \o p \o b>>) :
        a \in {"permit", "deny"}, p \in AclProtocols, b \in AclBodies}

\* lines of an interface block ahead of its zone-member line
InterfaceLines ==
    {<<>>,
     <<W(<<"description", "uplink">>)>>,
     <<W(<<"ip", "address", "10.0.0.1", "255.255.255.0">>)>>,
     <<W(<<"!">>)>>,
     <<W(<<"no", "shutdown">>)>>,
     <<W(<<"ip", "address", "10.0.0.1", "255.255.255.0">>), W(<<"no", "shutdown">>)>>}

\* files with one interface block
InterfaceConfigs ==
    {ZoneLines(k) \o <<W(<<"interface", "Gi0">>)>> \o ls
        \o <<<<K("zone-member"), K("security"), ZoneNames[m]>>>> :
        k \in 0..MaxZones, ls \in InterfaceLines, m \in 1..2}

\* a zone-pair declaration with or without its service-policy line
PairBlocks ==
    {<<W(<<"zone-pair", "security", nd[1], "source", "LAN", "destination", nd[2]>>)>>
        \o sp :
        nd \in {<<"ZP1", "WAN">>, <<"ZP2", "LAN">>},
        sp \in {<<>>, <<W(<<"service-policy", "type", "inspect", "PM1">>)>>}}

\* files with a run of zone-pair declarations
ZonePairConfigs ==
    {ZoneLines(2) \o ClassMapBlock \o PolicyMapBlock(<<K("PM1")>>) \o Flatten(bs) :
        bs \in SeqsUpTo(PairBlocks, MaxPairs)}

AclShort == <<"ACL_">>

\* files with an ACL that is applied, referenced by a class map, or neither;
\* the name ACL_ is a prefix of the name ACL_X the interface applies
OrphanConfigs ==
    {ZoneLines(1) \o i \o a \o c :
        i \in {<<>>, InterfaceApply},
        a \in {AclBlock(AclX, <<>>),
               AclBlock(AclX, <<AclRuleLines[5]>>),
               AclBlock(AclShort, <<AclRuleLines[5]>>),
               AclBlock(AclX, <<AclRuleLines[5]>>)
                  \o AclBlock(AclShort, <<AclRuleLines[5]>>)},
        c \in {<<>>, ClassMapBlock, ClassMapBlock \o PolicyMapBlock(<<K("PM1")>>)}}

Ip3 == <<"10", ".", "0", ".", "0", ".", "9">>

NetworkMembers ==
    {<<K("host"), Ip1>>,
     <<K("host"), Ip2>>,
     <<K("range"), Ip1, Ip3>>,
     <<K("host"), K("gateway")>>}

\* files with one network object group
NetworkConfigs ==
    {<<<<OG, K("network"), NetSrc>>>> \o ms : ms \in SeqsUpTo(NetworkMembers, MaxMembers)}

MaxPolicyLines == 3

PolicyMapLines ==
    {W(<<"class", "type", "inspect", "CM1">>), W(<<"class", "type", "inspect", "CM2">>),
     W(<<"inspect">>), W(<<"drop">>)}

\* files with one policy-map block
PolicyMapConfigs ==
    {<<W(<<"policy-map", "type", "inspect", "PM1">>)>> \o ls :
        ls \in SeqsUpTo(PolicyMapLines, MaxPolicyLines)}

MaxInner == 1

\* the header of a block of each section parser with an entry line of it
SectionBlocks ==
    {<<W(<<"interface", "Gi0">>), W(<<"zone-member", "security", "LAN">>)>>,
     <<<<OG, K("network"), NetSrc>>, <<K("host"), Ip1>>>>,
     <<<<K("ip"), K("access-list"), K("extended"), AclX>>,
       W(<<"permit", "ip", "any", "any">>)>>,
     <<W(<<"class-map", "type", "inspect", "match-any", "CM1">>),
       <<K("match"), K("access-group"), K("name"), AclX>>>>,
     <<W(<<"policy-map", "type", "inspect", "PM1">>),
       W(<<"class", "type", "inspect", "CM1">>)>>}

\* lines that stand between the header and the entry line
InnerLines ==
    {W(<<"remark", "web">>), W(<<"description", "web">>),
     W(<<"match", "protocol", "tcp">>), W(<<"!">>), <<>>, W(<<"end">>),
     W(<<"class-map", "type", "inspect", "match-all", "CM2">>)}

\* files with one block whose entry line follows other lines
SectionConfigs ==
    {<<W(<<"zone", "security", "LAN">>), b[1]>> \o m \o <<b[2]>> :
        b \in SectionBlocks, m \in SeqsUpTo(InnerLines, MaxInner)}

SvcWeb == K("WEB")

\* a class map that matches an ACL and an object group, bound to a policy map
ObjectGroupClass(g) ==
    <<W(<<"class-map", "type", "inspect", "match-any", "CM1">>),
      <<K("match"), K("access-group"), K("name"), AclX>>,
      <<K("match"), K("object-group"), g>>,
      W(<<"policy-map", "type", "inspect", "PM1">>),
      W(<<"class", "type", "inspect", "CM1">>)>>

\* files in which a service group of either naming stands where an address
\* group can stand
TypedFiles(g) ==
    {ZoneLines(1) \o InterfaceApply \o NetworkBlock
        \o <<<<OG, K("service"), g>>, W(<<"tcp", "eq", "80">>), W(<<"!">>)>>
        \o AclBlock(AclX, <<r>>) \o cm :
        r \in {<<K("permit"), K("tcp"), OG, NetSrc, OG, g>>,
               <<K("permit"), K("tcp"), OG, g, K("host"), Ip1>>},
        cm \in {<<>>, ObjectGroupClass(g), ObjectGroupClass(NetSrc)}}

TypedConfigs == TypedFiles(SvcA) \cup TypedFiles(SvcWeb)

Configs ==
    ServiceConfigs \cup AssemblerConfigs \cup OddConfigs \cup AclShapeConfigs
        \cup InterfaceConfigs \cup ZonePairConfigs \cup OrphanConfigs
        \cup NetworkConfigs \cup PolicyMapConfigs \cup SectionConfigs
        \cup TypedConfigs

Init ==
    /\ config_file \in Configs
    /\ add_internet_zone \in BOOLEAN
    /\ Constructed
    /\ pc = "convert"
    /\ ret = "generate"
    /\ rules_in = <<>>
    /\ rules_out = [raised |-> FALSE, rules |-> <<>>]

Spec == Init /\ [][Next]_vars
-----------------------------------------------------------------------------
(* _consolidate_rules called directly on a rules dict                       *)

NameX == K("X")
NameX1 == <<"X", "-", "1">>

\* Filter Rules as the translator builds them for ACL rules, and the
\* DENY-<class> rule of a drop action, which has no 'dst'
RulePool ==
    {[action |-> "allow", name |-> nm, priority |-> 0, protocols |-> <<pr>>,
      has_dst |-> TRUE,
      dst |-> [ip |-> <<d>>, port |-> <<>>],
      src |-> [ip |-> <<"u03">>, port |-> <<>>]] :
        nm \in {NameX, NameX1}, pr \in {6, 17}, d \in {"u01", "u02"}}
    \cup {[action |-> "deny", name |-> NameX, priority |-> 0, protocols |-> <<6>>,
           has_dst |-> TRUE,
           dst |-> [ip |-> <<d>>, port |-> <<>>],
           src |-> [ip |-> <<"u03">>, port |-> <<>>]] : d \in {"u01", "u02"}}
    \cup {[action |-> "deny", name |-> <<"DENY-", "CM1">>, priority |-> 0,
           protocols |-> <<6>>, has_dst |-> FALSE,
           dst |-> [ip |-> <<>>, port |-> <<>>],
           src |-> [ip |-> <<>>, port |-> <<>>]]}

\* rules[str(rule_index)] with priority rule_index * 10
RuleInputs ==
    {[i \in DOMAIN rs |-> [rs[i] EXCEPT !.priority = (i - 1) * 10]] :
        rs \in SeqsUpTo(RulePool, MaxRules)}

InitConsolidate ==
    /\ config_file = <<>>
    /\ add_internet_zone = FALSE
    /\ Constructed
    /\ pc = "consolidate"
    /\ ret = "generate"
    /\ rules_in \in RuleInputs
    /\ rules_out = [raised |-> FALSE, rules |-> <<>>]

consolidate ==
    /\ pc = "consolidate"
    /\ rules_out' = _consolidate_rules(rules_in)
    /\ pc' = "consolidated"
    /\ UNCHANGED <<inputs, config_lines, parsed, built, output, nextId, ret, rules_in>>

NextConsolidate == consolidate

SpecConsolidate == InitConsolidate /\ [][NextConsolidate]_vars
-----------------------------------------------------------------------------
(* create_filter_policies called directly on a converter whose parsed       *)
(* records are set                                                          *)

MaxClasses == 2

ClassNames == {K("CM1"), K("CM2")}

ActionLists ==
    {<<>>, <<[type |-> "inspect"]>>, <<[type |-> "drop"]>>, <<[type |-> "pass"]>>,
     <<[type |-> "inspect"], [type |-> "drop"]>>}

ClassActionPool == [class_name : ClassNames, actions : ActionLists]

PolicyMapInputs ==
    {<<[k |-> K("PM1"), v |-> [name |-> K("PM1"), class_actions |-> cas]]>> :
        cas \in SeqsUpTo(ClassActionPool, MaxClasses)}

\* no class map, or CM1 referencing an ACL of one rule
ClassMapInputs ==
    {<<>>,
     <<[k |-> K("CM1"),
        v |-> [name |-> K("CM1"), acl_references |-> <<AclX>>,
               object_group_references |-> <<>>]]>>}

AclInput ==
    <<[k |-> AclX,
       v |-> [name |-> AclX,
              rules |-> _parse_acl_rule(
                  <<K("permit"), K("tcp"), OG, NetSrc, K("host"), Ip1, K("eq"), K("80")>>)]]>>

InitPolicies ==
    /\ config_file = <<>>
    /\ add_internet_zone = FALSE
    /\ config_lines = <<>>
    /\ zones = <<>>
    /\ interfaces = <<>>
    /\ object_groups = <<>>
    /\ acls = AclInput
    /\ class_maps \in ClassMapInputs
    /\ policy_maps \in PolicyMapInputs
    /\ zone_pairs = <<>>
    /\ identities = [ip |-> <<>>, port |-> <<>>]
    /\ object_group_to_identity = <<>>
    /\ filter_policies = <<>>
    /\ zone_forwardings = <<>>
    /\ document = NoDocument
    /\ errors = <<>>
    /\ nextId = 0
    /\ pc = "create_filter_policies"
    /\ ret = "generate"
    /\ rules_in = <<>>
    /\ rules_out = [raised |-> FALSE, rules |-> <<>>]

NextPolicies == create_filter_policies

SpecPolicies == InitPolicies /\ [][NextPolicies]_vars
-----------------------------------------------------------------------------
(* Properties.  Generated holds once generate_cradlepoint_config returned.  *)

Generated == document.made

PolicyNames(fps) == [i \in DOMAIN fps |-> fps[i].v.name]

\* the ports of the `<proto> eq <port>` lines of the block that the header
\* at line h opens: the lines up to the next line that is not such an entry
RECURSIVE BlockPorts(_, _, _)
BlockPorts(lines, i, proto) ==
    IF i > Len(lines) THEN {}
    ELSE IF Len(lines[i]) = 3 /\ lines[i][1] \in {K("tcp"), K("udp")}
            /\ lines[i][2] = K("eq") /\ IsDigit(lines[i][3])
    THEN (IF lines[i][1] = K(proto) THEN {IntOf(lines[i][3])} ELSE {})
            \cup BlockPorts(lines, i + 1, proto)
    ELSE {}

ServiceHeaders(lines) ==
    {h \in DOMAIN lines :
        Len(lines[h]) = 3 /\ lines[h][1] = OG /\ lines[h][2] = K("service")}

\* the headers of service groups whose own block holds a tcp and a udp port
MixedHeaders(lines) ==
    {h \in ServiceHeaders(lines) :
        BlockPorts(lines, h + 1, "tcp") # {} /\ BlockPorts(lines, h + 1, "udp") # {}}

PortIdentitiesNamed(name) ==
    {i \in DOMAIN identities.port : identities.port[i].name = name}

ExactPorts(identity, ports) ==
    Range(identity.members) = {[start |-> q, end |-> q] : q \in ports}

\* the ACL rules of the configuration that use the service group
RulesUsing(group) ==
    UNION {{[acl |-> acls[a].k, rule |-> acls[a].v.rules[r]] :
               r \in {x \in DOMAIN acls[a].v.rules :
                         acls[a].v.rules[x].service_object_group = group}} :
           a \in DOMAIN acls}

FanOutFor(h) ==
    LET group == config_lines[h][3]
        tcp == PortIdentitiesNamed(group \o <<"-", "TCP">>)
        udp == PortIdentitiesNamed(group \o <<"-", "UDP">>)
    IN /\ Cardinality(tcp) = 1 /\ Cardinality(udp) = 1
       /\ PortIdentitiesNamed(group) = {}
       /\ \A i \in tcp : ExactPorts(identities.port[i],
                                    BlockPorts(config_lines, h + 1, "tcp"))
       /\ \A i \in udp : ExactPorts(identities.port[i],
                                    BlockPorts(config_lines, h + 1, "udp"))
       /\ \A u \in RulesUsing(group) :
            LET out == _convert_acl_rule_to_cradlepoint(
                           config_lines, object_groups, acls, u.rule, 0, u.acl,
                           IdentityState).rules
            IN /\ Len(out) = 2
               /\ out[1].protocols = <<6>> /\ out[2].protocols = <<17>>
               /\ \A i \in tcp : out[1].dst.port = <<identities.port[i].id>>
               /\ \A i \in udp : out[2].dst.port = <<identities.port[i].id>>

\* C1: for every service object-group whose block has at least one tcp eq
\* port and at least one udp eq port, the conversion leaves exactly two port
\* identities <group>-TCP and <group>-UDP holding exactly the TCP resp. UDP
\* ports as {start=p, end=p}, and every ACL rule using the group translates
\* to exactly two Filter Rules, protocol 6 then 17, each carrying only the
\* port identity of its own protocol.
C1_MixedProtocolFanOut ==
    Generated => \A h \in MixedHeaders(config_lines) : FanOutFor(h)

\* C2: whenever two rules passed to _consolidate_rules agree in action,
\* protocol, source and port identities and differ in their destination
\* identity, the result holds one rule whose destination IP list contains
\* the destinations of both, none twice.
C2_MergeByDestination ==
    (pc = "consolidated" /\ ~rules_out.raised) =>
        \A i, j \in DOMAIN rules_in :
            (/\ i < j
             /\ rules_in[i].has_dst /\ rules_in[j].has_dst
             /\ rules_in[i].action = rules_in[j].action
             /\ rules_in[i].protocols = rules_in[j].protocols
             /\ rules_in[i].src = rules_in[j].src
             /\ rules_in[i].dst.port = rules_in[j].dst.port
             /\ rules_in[i].dst.ip # rules_in[j].dst.ip)
            => \E k \in DOMAIN rules_out.rules :
                 LET ips == rules_out.rules[k].dst.ip
                 IN /\ Range(rules_in[i].dst.ip) \cup Range(rules_in[j].dst.ip)
                          \subseteq Range(ips)
                    /\ Cardinality(Range(ips)) = Len(ips)

\* C3: in every generated document, every forwarding's filter_policy_id is
\* a key of the emitted filter_policies map.
C3_ForwardingIntegrity ==
    Generated =>
        \A f \in DOMAIN document.forwardings :
            Has(document.filter_policies, document.forwardings[f].v.filter_policy_id)

\* C4: validate_against_dtd returns an empty error list on every document
\* that generate_cradlepoint_config returned.
C4_ValidatorAcceptsOutput ==
    pc = "done" => errors = <<>>
\* C5: converting a configuration with zero ACLs and zero policy maps yields
\* a document whose filter_policies are exactly `Default Allow All` and
\* `Default Deny All`; its forwardings map is empty when moreover no zone
\* pair was parsed and add_internet_zone is false.
C5_DefaultFallback ==
    (Generated /\ acls = <<>> /\ policy_maps = <<>>) =>
        /\ PolicyNames(document.filter_policies) = <<DefaultAllowAll, DefaultDenyAll>>
        /\ (zone_pairs = <<>> /\ ~add_internet_zone) => document.forwardings = <<>>

\* C5 as stated: ... and the forwardings map is empty.
C5_DefaultFallbackStated ==
    (Generated /\ acls = <<>> /\ policy_maps = <<>>) =>
        /\ PolicyNames(document.filter_policies) = <<DefaultAllowAll, DefaultDenyAll>>
        /\ document.forwardings = <<>>

C5_Witness ==
    /\ Generated /\ acls = <<>> /\ policy_maps = <<>>
    /\ zone_pairs = <<>> /\ ~add_internet_zone
    /\ Len(zones) = 2
    /\ Len(document.filter_policies) = 2
    /\ document.forwardings = <<>>

\* C6: one call of create_internet_zone with N zones existing adds exactly N
\* forwardings, the i-th from the i-th pre-existing zone to the new zone,
\* none from the new zone, all bound to one policy with an allow-all name.
C6_InternetZoneForwardings ==
    [][pc = "create_internet_zone" =>
         LET N == Len(zones)
             old == Len(zone_forwardings)
             internet == zones'[N + 1]
         IN /\ Len(zones') = N + 1
            /\ SubSeq(zones', 1, N) = zones
            /\ internet.v.name = internet_zone_name
            /\ Len(zone_forwardings') = old + N
            /\ SubSeq(zone_forwardings', 1, old) = zone_forwardings
            /\ \A i \in 1..N :
                 /\ zone_forwardings'[old + i].v.src_zone_id = zones[i].k
                 /\ zone_forwardings'[old + i].v.src_zone_id # internet.k
                 /\ zone_forwardings'[old + i].v.dst_zone_id = internet.k
            /\ \E p \in DOMAIN filter_policies' :
                 /\ IsAllowAllName(filter_policies'[p].v.name)
                 /\ \A i \in 1..N :
                      zone_forwardings'[old + i].v.filter_policy_id = filter_policies'[p].k
    ]_vars

\* create_internet_zone has run on two zones, next to a zone pair's forwarding
C6_Witness ==
    /\ add_internet_zone /\ pc = "generate"
    /\ Len(zones) = 3 /\ zones[3].v.name = internet_zone_name
    /\ Len(zone_forwardings) = 3
    /\ zone_forwardings[2].v.dst_zone_id = zones[3].k
    /\ zone_forwardings[3].v.dst_zone_id = zones[3].k

\* C7: whenever some filter policy is named `ALLOW ALL` or `Default Allow
\* All`, the first entry of the emitted filter_policies has such a name.
C7_AllowAllFirst ==
    (Generated /\ \E p \in DOMAIN filter_policies :
                     IsAllowAllName(filter_policies[p].v.name)) =>
        /\ document.filter_policies # <<>>
        /\ IsAllowAllName(document.filter_policies[1].v.name)

\* an allow-all policy created after another policy is emitted first
C7_Witness ==
    /\ Generated
    /\ Len(filter_policies) >= 2
    /\ ~IsAllowAllName(filter_policies[1].v.name)
    /\ IsAllowAllName(filter_policies[2].v.name)
    /\ document.filter_policies[1].k = filter_policies[2].k
\* the ACL rules of the configuration with a literal destination address
LiteralIpRules ==
    UNION {{[acl |-> acls[a].k, rule |-> acls[a].v.rules[r]] :
               r \in {x \in DOMAIN acls[a].v.rules :
                         /\ acls[a].v.rules[x].destination_object_group = <<>>
                         /\ _is_valid_ip_address(acls[a].v.rules[x].destination_ip)}} :
           a \in DOMAIN acls}

\* the ACL rules with a literal numeric destination port
LiteralPortRules ==
    UNION {{[acl |-> acls[a].k, rule |-> acls[a].v.rules[r]] :
               r \in {x \in DOMAIN acls[a].v.rules :
                         /\ acls[a].v.rules[x].service_object_group = <<>>
                         /\ IsDigit(acls[a].v.rules[x].destination_port)}} :
           a \in DOMAIN acls}

IdentitiesNamed(list, name) == {i \in DOMAIN list : list[i].name = name}

\* the Filter Rules of all policies that reference the identity
RulesReferencing(id, side) ==
    UNION {{<<p, r>> : r \in {x \in DOMAIN filter_policies[p].v.rules :
                                 id \in Range(IF side = "ip"
                                              THEN filter_policies[p].v.rules[x].dst.ip
                                              ELSE filter_policies[p].v.rules[x].dst.port)}} :
           p \in DOMAIN filter_policies}

\* C8: after any number of ACL rules were translated, at most one identity
\* is named IP-<address with dashes> for a literal address of the rules
\* (resp. PORT-<n> for a literal numeric port), and translating any rule
\* that mentions the literal leaves exactly one identity of that name, whose
\* id is the one the resulting Filter Rule references.
C8_LiteralIdentityOnce ==
    Generated =>
        /\ \A u \in LiteralIpRules :
             LET name == IpIdentityName(u.rule.destination_ip)
                 out == _convert_acl_rule_to_cradlepoint(
                            config_lines, object_groups, acls, u.rule, 0, u.acl,
                            IdentityState)
                 named == IdentitiesNamed(out.st.ip, name)
             IN /\ Cardinality(IdentitiesNamed(identities.ip, name)) <= 1
                /\ Cardinality(named) = 1
                /\ \A i \in named : \A r \in DOMAIN out.rules :
                       out.rules[r].dst.ip = <<out.st.ip[i].id>>
        /\ \A u \in LiteralPortRules :
             LET name == PortIdentityName(u.rule.destination_port)
                 out == _convert_acl_rule_to_cradlepoint(
                            config_lines, object_groups, acls, u.rule, 0, u.acl,
                            IdentityState)
                 named == IdentitiesNamed(out.st.port, name)
             IN /\ Cardinality(IdentitiesNamed(identities.port, name)) <= 1
                /\ Cardinality(named) = 1
                /\ \A i \in named : \A r \in DOMAIN out.rules :
                       out.rules[r].dst.port = <<out.st.port[i].id>>

\* two translated rules mention 10.0.0.1 and two mention port 80: one
\* identity each, referenced by two Filter Rules of the policy
C8_Witness ==
    /\ Generated
    /\ Cardinality({u \in LiteralIpRules : u.rule.destination_ip = Ip1}) >= 2
    /\ Cardinality({u \in LiteralPortRules : u.rule.destination_port = K("80")}) >= 2
    /\ \E i \in IdentitiesNamed(identities.ip, IpIdentityName(Ip1)) :
          Cardinality(RulesReferencing(identities.ip[i].id, "ip")) >= 2
    /\ \E i \in IdentitiesNamed(identities.port, PortIdentityName(K("80"))) :
          Cardinality(RulesReferencing(identities.port[i].id, "port")) >= 2

\* C9: the names of the rules _consolidate_rules returns are pairwise
\* distinct.
C9_RuleNamesDistinct ==
    (pc = "consolidated" /\ ~rules_out.raised) =>
        \A i, j \in DOMAIN rules_out.rules :
            i # j => rules_out.rules[i].name # rules_out.rules[j].name

\* C10: parse_config never raises on the lines of a readable file.
C10_ParseNeverRaises == pc # "raised"

-----------------------------------------------------------------------------
(* Parsers *)

\* the parsers have run (parse_config is past parse_zone_pairs)
Parsed ==
    pc \in {"create_identities", "create_filter_policies", "create_zone_forwardings",
            "create_internet_zone", "generate", "emit", "validate", "done"}

IsRuleLine(line) ==
    StartsWithWords(line, <<"permit">>) \/ StartsWithWords(line, <<"deny">>)

\* the tokens of a permit/deny line after the optional protocol
RemainingParts(line) ==
    IF Lower(line[2]) \in valid_protocols THEN Drop(line, 2) ELSE Drop(line, 1)

IsPortSpec(rp) ==
    \/ Len(rp) = 2 /\ rp[1] = K("eq")
    \/ Len(rp) = 3 /\ rp[1] = K("range")

\* the seven documented shapes of the address / port part
DocumentedShape(rp) ==
    \/ Len(rp) = 6 /\ rp[1] = OG /\ rp[3] = OG /\ rp[5] = OG
    \/ /\ Len(rp) >= 4 /\ rp[1] = OG /\ rp[3] = OG
       /\ IF IsServiceName(rp[2])
          THEN Len(rp) = 4 \/ (Len(rp) = 5 /\ rp[5] = K("any"))
          ELSE Len(rp) = 4 \/ IsPortSpec(Drop(rp, 4))
    \/ /\ Len(rp) >= 4 /\ rp[1] = OG /\ rp[3] = K("host")
       /\ Len(rp) = 4 \/ IsPortSpec(Drop(rp, 4))
    \/ Len(rp) = 2
    \/ Len(rp) = 1

\* the permit/deny lines of the ACL blocks of the file, with the ACL they
\* stand in: a rule line directly below the header or below another rule line
AclRuleLinesOf(lines) ==
    {i \in DOMAIN lines :
        /\ IsRuleLine(lines[i])
        /\ \E h \in 1..(i - 1) :
              /\ StartsWithWords(lines[h], <<"ip", "access-list", "extended">>)
              /\ \A j \in (h + 1)..(i - 1) : IsRuleLine(lines[j])}

EmptyRule(r) ==
    /\ r.service_object_group = <<>> /\ r.source_object_group = <<>>
    /\ r.destination_object_group = <<>> /\ r.source_ip = <<>>
    /\ r.destination_ip = <<>> /\ r.source_port = <<>> /\ r.destination_port = <<>>

\* C11: for every permit/deny line of an ACL whose tokens after the optional
\* protocol match none of the seven documented shapes, _parse_acl_rule
\* returns None, and the ACLs hold no rule that came from such a line.
C11_UnmatchedShapesDropped ==
    Parsed =>
        /\ \A i \in AclRuleLinesOf(config_lines) :
              ~DocumentedShape(RemainingParts(config_lines[i]))
                  => _parse_acl_rule(config_lines[i]) = <<>>
        /\ \A a \in DOMAIN acls : \A r \in DOMAIN acls[a].v.rules :
              ~EmptyRule(acls[a].v.rules[r])

\* shape 4: object-group A host IP [eq PORT | range P1 P2]
IsShape4(rp) ==
    /\ Len(rp) >= 4 /\ rp[1] = OG /\ rp[3] = K("host")
    /\ Len(rp) = 4 \/ IsPortSpec(Drop(rp, 4))

\* C12: for every ACL line `permit|deny [protocol] object-group A host IP`
\* with or without a trailing `eq PORT` or `range P1 P2`, _parse_acl_rule
\* yields one rule whose source is object-group A and whose destination is
\* the literal host IP, with a destination port exactly when a port spec is
\* present.
C12_ShapeGroupToHost ==
    Parsed =>
        \A i \in AclRuleLinesOf(config_lines) :
            LET rp == RemainingParts(config_lines[i])
                got == _parse_acl_rule(config_lines[i])
            IN IsShape4(rp) =>
                 /\ Len(got) = 1
                 /\ got[1].source_object_group = rp[2]
                 /\ got[1].source_ip = <<>>
                 /\ got[1].destination_ip = rp[4]
                 /\ got[1].destination_object_group = <<>>
                 /\ (got[1].destination_port # <<>>) <=> (Len(rp) > 4)

\* a line that opens a new top-level section or is a `!` separator
TopLevelLine(line) ==
    \/ line = <<>>
    \/ StartsWithText(line, "!")
    \/ line[1] \in {K("interface"), K("zone"), K("zone-pair"), K("object-group"),
                    K("class-map"), K("policy-map"), K("end")}
    \/ Len(line) >= 2 /\ line[1] = K("ip") /\ line[2] = K("access-list")

\* the lines of the interface block that the header at line h opens
InterfaceBlockOf(lines, h) ==
    {j \in (h + 1)..Len(lines) : \A x \in (h + 1)..j : ~TopLevelLine(lines[x])}

\* the zone-member lines inside interface blocks: <<header, line>>
ZoneMemberLines(lines) ==
    {hj \in (DOMAIN lines) \X (DOMAIN lines) :
        /\ StartsWithWords(lines[hj[1]], <<"interface">>)
        /\ hj[2] \in InterfaceBlockOf(lines, hj[1])
        /\ StartsWithWords(lines[hj[2]], <<"zone-member", "security">>)}

ZonesNamed(name) == {z \in DOMAIN zones : zones[z].v.name = name}

\* C13: for every interface block that contains a `zone-member security
\* <name>` line naming a declared zone, after parse_interfaces the interface
\* record's zone is <name> and that zone's record has a device-membership
\* entry named after the interface, whatever other lines the block contains.
C13_ZoneMembershipCoupling ==
    Parsed =>
        \A hj \in ZoneMemberLines(config_lines) :
            LET interface_name == JoinTokens(Drop(config_lines[hj[1]], 1))
                zone_name == JoinTokens(Drop(config_lines[hj[2]], 2))
            IN ZonesNamed(zone_name) # {} =>
                 /\ Has(interfaces, interface_name)
                 /\ Get(interfaces, interface_name).zone = zone_name
                 /\ \E z \in ZonesNamed(zone_name) :
                      \E d \in DOMAIN zones[z].v.devices :
                          /\ zones[z].v.devices[d].name = interface_name
                          /\ zones[z].v.devices[d].type = "interface"

\* a zone-pair declaration that names a pair, a source and a destination
PairDeclaration(line) ==
    /\ StartsWithWords(line, <<"zone-pair", "security">>)
    /\ Len(line) >= 6
    /\ AfterKeyword(line, "source") # <<>>
    /\ AfterKeyword(line, "destination") # <<>>

PairDeclarations(lines) == {i \in DOMAIN lines : PairDeclaration(lines[i])}

ServicePolicyLine(line) == StartsWithWords(line, <<"service-policy", "type", "inspect">>)

Max(S) == CHOOSE x \in S : \A y \in S : y <= x

\* the policy map the text binds to the pair declared last under the name:
\* the last service-policy line between that declaration and the next one
BoundPolicyMap(lines, name) ==
    LET d == Max({i \in PairDeclarations(lines) : lines[i][3] = name})
        sps == {i \in (d + 1)..Len(lines) :
                   /\ ServicePolicyLine(lines[i])
                   /\ \A x \in (d + 1)..i : x \notin PairDeclarations(lines)}
    IN IF sps = {} THEN <<>> ELSE lines[Max(sps)][4]

\* C14: after parse_zone_pairs, each zone pair's policy_map is the name
\* given by the last `service-policy type inspect` line after that pair's
\* declaration and before the next zone-pair declaration, and None if there
\* is no such line; a service-policy line changes no other pair.
C14_ServicePolicyBinding ==
    Parsed =>
        \A q \in DOMAIN zone_pairs :
            zone_pairs[q].v.policy_map = BoundPolicyMap(config_lines, zone_pairs[q].k)

-----------------------------------------------------------------------------
(* Policies and forwardings *)

\* create_filter_policies has returned
PoliciesBuilt ==
    pc \in {"create_zone_forwardings", "create_internet_zone", "generate", "emit",
            "validate", "done"}

\* an access-group line, or a service-policy / zone-pair line, names the ACL
MentionedAsApplied(lines, acl_name) ==
    \E i \in DOMAIN lines :
        \/ \E t \in 1..(Len(lines[i]) - 1) :
              lines[i][t] = K("access-group") /\ lines[i][t + 1] = acl_name
        \/ /\ \E t \in DOMAIN lines[i] : lines[i][t] = acl_name
           /\ \E t \in DOMAIN lines[i] :
                 lines[i][t] \in {K("service-policy"), K("zone-pair")}

ReferencedByClassMap(acl_name) ==
    \E c \in DOMAIN class_maps : acl_name \in Range(class_maps[c].v.acl_references)

StandalonePolicies(acl_name) ==
    {p \in DOMAIN filter_policies :
        /\ filter_policies[p].v.name = acl_name
        /\ filter_policies[p].v.default_action = "deny"}

\* C15: after create_filter_policies, an ACL has its own Filter Policy named
\* after it (default_action deny) exactly when it is referenced by no class
\* map, is applied somewhere and has at least one parsed rule; an ACL
\* referenced by a class map never gets a standalone policy.
C15_OrphanAclPolicies ==
    PoliciesBuilt =>
        \A a \in DOMAIN acls :
            (StandalonePolicies(acls[a].k) # {}) <=>
                /\ ~ReferencedByClassMap(acls[a].k)
                /\ MentionedAsApplied(config_lines, acls[a].k)
                /\ acls[a].v.rules # <<>>

\* the same with the substring tests of _is_acl_applied_somewhere
C15_WithSubstringTest ==
    PoliciesBuilt =>
        \A a \in DOMAIN acls :
            (StandalonePolicies(acls[a].k) # {}) <=>
                /\ ~ReferencedByClassMap(acls[a].k)
                /\ _is_acl_applied_somewhere(config_lines, acls[a].k)
                /\ acls[a].v.rules # <<>>

\* create_filter_policies has returned or raised
PoliciesCallEnded == pc \in {"create_zone_forwardings", "raised"}

HasDrop(actions) == \E k \in DOMAIN actions : actions[k].type = "drop"

PoliciesNamed(name) == {p \in DOMAIN filter_policies : filter_policies[p].v.name = name}

DenyRuleName(class_name) == K("DENY-") \o class_name

ForwardingsBuilt == pc \in {"create_internet_zone", "generate", "emit", "validate", "done"}

ZoneIdsNamed(name) == {zones[z].k : z \in ZonesNamed(name)}

\* C17: for every Zone Pair whose source and destination zone names are both
\* names of declared zones (the same zone included), the forwarding created
\* for it has src_zone_id equal to the id of the source zone and dst_zone_id
\* equal to the id of the destination zone.
C17_ZoneResolution ==
    ForwardingsBuilt =>
        \A p \in DOMAIN zone_pairs :
            LET pair == zone_pairs[p].v IN
            (ZonesNamed(pair.source_zone) # {} /\ ZonesNamed(pair.destination_zone) # {}) =>
                /\ p \in DOMAIN zone_forwardings
                /\ zone_forwardings[p].v.src_zone_id \in ZoneIdsNamed(pair.source_zone)
                /\ zone_forwardings[p].v.dst_zone_id \in ZoneIdsNamed(pair.destination_zone)

\* the same for pairs of two different zones
C17_DistinctZonesResolved ==
    ForwardingsBuilt =>
        \A p \in DOMAIN zone_pairs :
            LET pair == zone_pairs[p].v IN
            (/\ ZonesNamed(pair.source_zone) # {}
             /\ ZonesNamed(pair.destination_zone) # {}
             /\ pair.source_zone # pair.destination_zone) =>
                /\ p \in DOMAIN zone_forwardings
                /\ zone_forwardings[p].v.src_zone_id \in ZoneIdsNamed(pair.source_zone)
                /\ zone_forwardings[p].v.dst_zone_id \in ZoneIdsNamed(pair.destination_zone)

PolicyIdsNamed(name) == {filter_policies[p].k : p \in PoliciesNamed(name)}

BoundByName(pair) == pair.policy_map # <<>> /\ PoliciesNamed(pair.policy_map) # {}

\* C18: for every Zone Pair, the forwarding's filter_policy_id is the id of
\* the Filter Policy named like the pair's bound policy map when such a
\* policy exists; otherwise the id of the policy named Default Deny All when
\* that exists; otherwise the empty string.
C18_PolicyBindingFallback ==
    ForwardingsBuilt =>
        \A p \in DOMAIN zone_pairs :
            LET pair == zone_pairs[p].v
                bound == zone_forwardings[p].v.filter_policy_id
            IN /\ p \in DOMAIN zone_forwardings
               /\ IF BoundByName(pair)
                  THEN bound \in PolicyIdsNamed(pair.policy_map)
                  ELSE IF PoliciesNamed(DefaultDenyAll) # {}
                  THEN bound \in PolicyIdsNamed(DefaultDenyAll)
                  ELSE bound = ""

\* a pair whose service-policy names a policy map without a policy is bound
\* to Default Deny All
C18_Witness ==
    /\ ForwardingsBuilt
    /\ \E p \in DOMAIN zone_pairs :
          /\ zone_pairs[p].v.policy_map # <<>>
          /\ ~BoundByName(zone_pairs[p].v)
          /\ zone_forwardings[p].v.filter_policy_id \in PolicyIdsNamed(DefaultDenyAll)

-----------------------------------------------------------------------------
(* Identities *)

\* create_identities has returned
IdentitiesBuilt ==
    pc \in {"create_filter_policies", "create_zone_forwardings", "create_internet_zone",
            "generate", "emit", "validate", "done"}

ValidRange(obj) ==
    obj.type = "range" /\ _is_valid_ip_address(obj.start) /\ _is_valid_ip_address(obj.end)

\* the addresses a member of a network group stands for
MemberAddresses(obj) ==
    IF obj.type = "host"
    THEN IF _is_valid_ip_address(obj.value) THEN {obj.value} ELSE {}
    ELSE IF obj.type = "network"
    THEN IF _is_valid_ip_address(obj.network)
         THEN {obj.network \o _cidr_from_mask(obj.mask)} ELSE {}
    ELSE IF ValidRange(obj) THEN {obj.start, obj.end}
    ELSE {}

RangeGroups ==
    {g \in DOMAIN object_groups :
        /\ object_groups[g].v.type = K("network")
        /\ \E i \in DOMAIN object_groups[g].v.objects :
              ValidRange(object_groups[g].v.objects[i])}

\* C19: for every network object-group with a `range START END` member of
\* two valid addresses, at any position in the member list, the group's IP
\* identity contains an address member START and an address member END, and
\* the address of every other valid member of the group.
C19_RangeMembers ==
    IdentitiesBuilt =>
        \A g \in RangeGroups :
            \E i \in IdentitiesNamed(identities.ip, object_groups[g].k) :
                \A o \in DOMAIN object_groups[g].v.objects :
                    \A a \in MemberAddresses(object_groups[g].v.objects[o]) :
                        [address |-> a] \in Range(identities.ip[i].members)

-----------------------------------------------------------------------------
(* Internet zone *)

AllowAllPolicies(fps) == {p \in DOMAIN fps : IsAllowAllName(fps[p].v.name)}

\* C20: create_internet_zone creates a new policy (named ALLOW ALL, empty
\* rules, default_action allow) only when no policy named ALLOW ALL or
\* Default Allow All exists; when one exists it is reused for the new
\* forwardings and no policy is added.
C20_InternetAllowPolicy ==
    [][pc = "create_internet_zone" =>
         LET existing == AllowAllPolicies(filter_policies)
             old == Len(zone_forwardings)
             N == Len(filter_policies)
         IN IF existing # {}
            THEN /\ filter_policies' = filter_policies
                 /\ \A i \in (old + 1)..Len(zone_forwardings') :
                      \E p \in existing :
                         zone_forwardings'[i].v.filter_policy_id = filter_policies[p].k
            ELSE /\ Len(filter_policies') = N + 1
                 /\ SubSeq(filter_policies', 1, N) = filter_policies
                 /\ filter_policies'[N + 1].v.name = AllowAll
                 /\ filter_policies'[N + 1].v.rules = <<>>
                 /\ filter_policies'[N + 1].v.default_action = "allow"
    ]_vars

-----------------------------------------------------------------------------
(* Blocks of the section parsers *)

IsActionLine(line) ==
    Len(line) >= 1 /\ line[1] \in {K("inspect"), K("drop"), K("pass")}

\* the (class, actions) entries the lines from i up to the end of the block
\* spell out
RECURSIVE ClassActionsOf(_, _, _)
ClassActionsOf(lines, i, acc) ==
    IF i > Len(lines) THEN acc
    ELSE IF TopLevelLine(lines[i]) THEN acc
    ELSE IF StartsWithWords(lines[i], <<"class", "type", "inspect">>)
    THEN ClassActionsOf(lines, i + 1,
             Append(acc, [class_name |-> JoinTokens(Drop(lines[i], 3)),
                          actions |-> <<>>]))
    ELSE IF IsActionLine(lines[i]) /\ acc # <<>>
    THEN ClassActionsOf(lines, i + 1,
             [acc EXCEPT ![Len(acc)].actions = Append(@, [type |-> lines[i][1][1]])])
    ELSE ClassActionsOf(lines, i + 1, acc)

\* the policy-map headers that are the last one of their name
PolicyMapHeaders(lines) ==
    {h \in DOMAIN lines :
        /\ StartsWithWords(lines[h], <<"policy-map", "type", "inspect">>)
        /\ \A x \in (h + 1)..Len(lines) :
              StartsWithWords(lines[x], <<"policy-map", "type", "inspect">>)
                  => Drop(lines[x], 3) # Drop(lines[h], 3)}

\* C21: for every `policy-map type inspect <name>` block, parse_policy_maps
\* records every `class type inspect <class>` line of the block, in input
\* order, each with the inspect/drop/pass action lines that follow it in the
\* block.
C21_PolicyMapParsing ==
    Parsed =>
        \A h \in PolicyMapHeaders(config_lines) :
            LET name == JoinTokens(Drop(config_lines[h], 3))
            IN /\ Has(policy_maps, name)
               /\ Get(policy_maps, name).class_actions
                      = ClassActionsOf(config_lines, h + 1, <<>>)

\* the lines of the block that the header at line h opens, up to the next
\* blank line, `!` line, top-level directive or `end`
BlockOf(lines, h) == SubSeq(lines, h + 1, Max({h} \cup InterfaceBlockOf(lines, h)))

\* the headers beginning with the words ws whose name (from token at on) is
\* not declared again further down
LastHeaders(lines, ws, at) ==
    {h \in DOMAIN lines :
        /\ StartsWithWords(lines[h], ws)
        /\ \A x \in (h + 1)..Len(lines) :
              StartsWithWords(lines[x], ws) => Drop(lines[x], at) # Drop(lines[h], at)}

AclRulesIn(block) ==
    Flatten([i \in DOMAIN block |->
                IF IsRuleLine(block[i]) THEN _parse_acl_rule(block[i]) ELSE <<>>])

AclRefsIn(block) ==
    Flatten([i \in DOMAIN block |->
                IF StartsWithWords(block[i], <<"match", "access-group", "name">>)
                THEN <<block[i][4]>> ELSE <<>>])

GroupRefsIn(block) ==
    Flatten([i \in DOMAIN block |->
                IF StartsWithWords(block[i], <<"match", "object-group">>)
                THEN <<block[i][3]>> ELSE <<>>])

ClassNamesIn(block) ==
    Flatten([i \in DOMAIN block |->
                IF StartsWithWords(block[i], <<"class", "type", "inspect">>)
                THEN <<JoinTokens(Drop(block[i], 3))>> ELSE <<>>])

\* C22: in parse_acls and parse_class_maps a line the parser does not
\* recognise inside a block (remark, description, match protocol) does not end
\* the block: every permit/deny line, resp. every match access-group name /
\* match object-group line, before the next top-level directive is recorded.
C22_UnrecognisedLinesKeepBlock ==
    Parsed =>
        /\ \A h \in LastHeaders(config_lines, <<"ip", "access-list", "extended">>, 3) :
              IsPrefix(AclRulesIn(BlockOf(config_lines, h)),
                       Get(acls, JoinTokens(Drop(config_lines[h], 3))).rules)
        /\ \A h \in LastHeaders(config_lines,
                                <<"class-map", "type", "inspect", "match-any">>, 4) :
              LET cm == Get(class_maps, JoinTokens(Drop(config_lines[h], 4)))
              IN /\ IsPrefix(AclRefsIn(BlockOf(config_lines, h)), cm.acl_references)
                 /\ IsPrefix(GroupRefsIn(BlockOf(config_lines, h)),
                             cm.object_group_references)

\* the headers `object-group <type> <name>` whose name is not declared again
ObjectGroupHeaders(lines) ==
    {h \in DOMAIN lines :
        /\ StartsWithWords(lines[h], <<"object-group">>) /\ Len(lines[h]) >= 3
        /\ \A x \in (h + 1)..Len(lines) :
              (StartsWithWords(lines[x], <<"object-group">>) /\ Len(lines[x]) >= 3)
                  => lines[x][3] # lines[h][3]}

\* C23: in every section parser the block ends at a blank or `!` line, at a
\* new top-level directive (a header of the same family that the parser does
\* not model included) and at `end`: nothing is recorded for a block beyond
\* the entry lines that stand before its terminator.
C23_BlockTermination ==
    Parsed =>
        /\ \A h \in LastHeaders(config_lines, <<"interface">>, 1) :
              Get(interfaces, JoinTokens(Drop(config_lines[h], 1))).zone # <<>>
                  => \E j \in InterfaceBlockOf(config_lines, h) :
                         StartsWithWords(config_lines[j], <<"zone-member", "security">>)
        /\ \A h \in ObjectGroupHeaders(config_lines) :
              Len(Get(object_groups, config_lines[h][3]).objects)
                  <= Len(BlockOf(config_lines, h))
        /\ \A h \in LastHeaders(config_lines, <<"ip", "access-list", "extended">>, 3) :
              IsPrefix(Get(acls, JoinTokens(Drop(config_lines[h], 3))).rules,
                       AclRulesIn(BlockOf(config_lines, h)))
        /\ \A h \in LastHeaders(config_lines,
                                <<"class-map", "type", "inspect", "match-any">>, 4) :
              LET cm == Get(class_maps, JoinTokens(Drop(config_lines[h], 4)))
              IN /\ IsPrefix(cm.acl_references, AclRefsIn(BlockOf(config_lines, h)))
                 /\ IsPrefix(cm.object_group_references,
                             GroupRefsIn(BlockOf(config_lines, h)))
        /\ \A h \in LastHeaders(config_lines, <<"policy-map", "type", "inspect">>, 3) :
              LET pm == Get(policy_maps, JoinTokens(Drop(config_lines[h], 3)))
              IN IsPrefix([i \in DOMAIN pm.class_actions |->
                              pm.class_actions[i].class_name],
                          ClassNamesIn(BlockOf(config_lines, h)))

-----------------------------------------------------------------------------
(* The emitted document *)

PolicyIds(fps) == {fps[i].k : i \in DOMAIN fps}

OtherPolicies(fps) == SelectSeq(fps, LAMBDA e : ~IsAllowAllName(e.v.name))

\* C24: the filter_policies that generate_cradlepoint_config emits hold every
\* Filter Policy the converter holds exactly once (same set of ids), the
\* policies with no allow-all name in their original insertion order.
C24_ReorderingKeepsPolicies ==
    Generated =>
        /\ PolicyIds(document.filter_policies) = PolicyIds(filter_policies)
        /\ Len(document.filter_policies) = Len(filter_policies)
        /\ OtherPolicies(document.filter_policies) = OtherPolicies(filter_policies)

-----------------------------------------------------------------------------
(* Consolidated rules *)

\* what a rule matches: action, protocols and the identities of each side
RuleTuple(r) ==
    [action |-> r.action, protocols |-> Range(r.protocols),
     src_ip |-> Range(r.src.ip), src_port |-> Range(r.src.port),
     dst_ip |-> Range(r.dst.ip), dst_port |-> Range(r.dst.port)]

RuleTuples(rules) == [i \in DOMAIN rules |-> RuleTuple(rules[i])]

\* the rules that are alone in their group
AloneInGroup(rules) ==
    {i \in DOMAIN rules :
        \A j \in DOMAIN rules : GroupKey(rules[j]) = GroupKey(rules[i]) => j = i}

-----------------------------------------------------------------------------
(* Filter Rules of the built policies *)

\* C26: in every Filter Policy built by create_filter_policies (orphan-ACL
\* pass and policy-map pass, fan-out, OBJ- and DENY- rules, after
\* consolidation) the rule priorities are strictly increasing in rule-key
\* order, hence pairwise distinct.
C26_PriorityMonotonic ==
    PoliciesBuilt =>
        \A p \in DOMAIN filter_policies :
            \A i, j \in DOMAIN filter_policies[p].v.rules :
                i < j => filter_policies[p].v.rules[i].priority
                             < filter_policies[p].v.rules[j].priority

\* a policy of three rules or more, two of them the TCP and UDP rules of one
\* mixed service group
C26_Witness ==
    /\ PoliciesBuilt
    /\ \E p \in DOMAIN filter_policies :
          LET rules == filter_policies[p].v.rules
          IN /\ Len(rules) >= 3
             /\ \E i \in 1..(Len(rules) - 1) :
                   /\ rules[i].protocols = <<6>> /\ rules[i + 1].protocols = <<17>>
                   /\ rules[i].name[Len(rules[i].name)] = "TCP"
                   /\ rules[i + 1].name[Len(rules[i + 1].name)] = "UDP"
                   /\ rules[i + 1].priority = rules[i].priority + 10

IdsOf(list) == {list[i].id : i \in DOMAIN list}

\* C27: in every emitted Filter Rule the identities on src.ip and dst.ip are
\* ids of identities.ip entries and those on src.port and dst.port are ids of
\* identities.port entries; a service group's port identity never stands on
\* an address side, whatever the group is named.
C27_TypedIdentityReferences ==
    Generated =>
        \A p \in DOMAIN document.filter_policies :
            \A r \in DOMAIN document.filter_policies[p].v.rules :
                LET rule == document.filter_policies[p].v.rules[r]
                IN /\ Range(rule.src.ip) \cup Range(rule.dst.ip)
                          \subseteq IdsOf(document.identities.ip)
                   /\ Range(rule.src.port) \cup Range(rule.dst.port)
                          \subseteq IdsOf(document.identities.port)

-----------------------------------------------------------------------------
(* One run of the pipeline *)

InternetZones(zs) == {z \in DOMAIN zs : zs[z].v.name = internet_zone_name}

\* C28: one convert() call runs the parsing / building pipeline exactly once,
\* for every input, the empty file included: generate_cradlepoint_config
\* never runs parse_config again, and with add_internet_zone the emitted
\* document holds exactly one Internet zone.
C28_SinglePipelineRun ==
    /\ ret = "generate"
    /\ (Generated /\ add_internet_zone) =>
           Cardinality(InternetZones(document.zones)) = 1

-----------------------------------------------------------------------------
(* Service groups *)

\* the service group headers whose name no other header of the file declares
OwnHeaders(lines) ==
    {h \in ServiceHeaders(lines) :
        \A x \in ServiceHeaders(lines) : lines[x][3] = lines[h][3] => x = h}

\* the header at line h with the lines of its block
OwnBlock(lines, h) == <<lines[h]>> \o BlockOf(lines, h)

ProtocolsInFile(lines, h) ==
    _get_protocol_identities_for_service_group(lines, object_groups, lines[h][3])

ProtocolsInOwnBlock(lines, h) ==
    _get_protocol_identities_for_service_group(
        OwnBlock(lines, h), object_groups, lines[h][3])

\* C29: the protocol list computed for a service group G depends only on
\* G's own block: in a file with other object-group blocks (one whose name
\* has G as a prefix included) it is the list computed from G's block alone.
C29_ProtocolsFromOwnBlock ==
    Parsed =>
        \A h \in OwnHeaders(config_lines) :
            ProtocolsInFile(config_lines, h) = ProtocolsInOwnBlock(config_lines, h)

-----------------------------------------------------------------------------
(* Literal destination ports *)

IsRangeText(port) ==
    Len(port) = 3 /\ port[2] = "-" /\ IsDigit(<<port[1]>>) /\ IsDigit(<<port[3]>>)

\* the ACL rules whose destination port was written `eq N` or `range P1 P2`
\* with numbers
NumericPortRules ==
    UNION {{[acl |-> acls[a].k, rule |-> acls[a].v.rules[r]] :
               r \in {x \in DOMAIN acls[a].v.rules :
                         /\ acls[a].v.rules[x].service_object_group = <<>>
                         /\ \/ IsDigit(acls[a].v.rules[x].destination_port)
                            \/ IsRangeText(acls[a].v.rules[x].destination_port)}} :
           a \in DOMAIN acls}

\* the port range the text of a destination port names
PortsNamed(port) ==
    IF IsRangeText(port)
    THEN <<[start |-> IntOf(<<port[1]>>), end |-> IntOf(<<port[3]>>)]>>
    ELSE <<[start |-> IntOf(port), end |-> IntOf(port)]>>

\* the rules carry a destination port identity and each one covers `members`
CoversPorts(out, members) ==
    \A r \in DOMAIN out.rules :
        /\ out.rules[r].dst.port # <<>>
        /\ \A id \in Range(out.rules[r].dst.port) :
              \E i \in DOMAIN out.st.port :
                  out.st.port[i].id = id /\ out.st.port[i].members = members

\* C30: every ACL rule with a literal destination port `eq N` or
\* `range P1 P2` (numbers) translates to Filter Rules whose dst.port is not
\* empty and references a port identity covering exactly N..N resp. P1..P2.
C30_LiteralPortCovered ==
    Generated =>
        \A u \in NumericPortRules :
            CoversPorts(_convert_acl_rule_to_cradlepoint(
                            config_lines, object_groups, acls, u.rule, 0, u.acl,
                            IdentityState),
                        PortsNamed(u.rule.destination_port))

====
